---- MODULE Spec2Model ----
(***************************************************************************)
(* FERRUM: the ncurses git viewer (src/ncurses_diff_viewer.c) and the line *)
(* editor (src/line_reader.c) as state machines.                           *)
(*                                                                         *)
(* The viewer part models run_ncurses_diff_viewer's main loop: one step    *)
(* for update_sync_status (a frame), one step for the key handler          *)
(* handle_ncurses_diff_input with every call it makes, and environment     *)
(* steps for what happens outside the process (the fetch child exiting,    *)
(* the wall clock passing the 30 second mark, the user editing files of    *)
(* the working tree from elsewhere).  The repository is the external       *)
(* collaborator the loaders read with git commands; it is kept in the      *)
(* variable repo.                                                          *)
(***************************************************************************)
EXTENDS Integers, Sequences, FiniteSets, TLC

(***************************************************************************)
(* Bounds of the model.                                                    *)
(***************************************************************************)
NumFiles == 2
NumBranches == 2
MaxCommits == 3
MaxStashes == 2
MaxLines == 6
MaxFrames == 3
MaxPids == 2
MaxBehind == 1
MaxSpin == 1
MaxEdits == 1
MaxDialogKeys == 4
MaxInput == 3
MaxAnimFrames == 4
MaxViewLines == 7
MaxFileLines == 52
MaxPresses == 3
\* lengths of the one line of a new file that is not one byte long
LineLengths == {0, 1022, 1023, 1024, 2046}
HISTORY_SIZE == 3
MaxAdds == 5

FileNames == 1..NumFiles
BranchNames == 1..NumBranches
Pids == 1..MaxPids

\* Lines of a diff / commit / stash text: TRUE is a line with content,
\* FALSE a blank or whitespace-only line.
ContentChoices == {<<>>, [i \in 1..MaxLines |-> i # 2]}
\* text of a commit, a stash, a branch's commit list
CommitText == [i \in 1..MaxLines |-> i # 2]
StashText == [i \in 1..MaxLines |-> i # 2]
BranchText == [i \in 1..MaxLines |-> i # 2]

(***************************************************************************)
(* Program constants.                                                      *)
(***************************************************************************)
NCURSES_MODE_FILE_LIST == 0
NCURSES_MODE_FILE_VIEW == 1
NCURSES_MODE_COMMIT_LIST == 2
NCURSES_MODE_COMMIT_VIEW == 3
NCURSES_MODE_STASH_LIST == 4
NCURSES_MODE_STASH_VIEW == 5
NCURSES_MODE_BRANCH_LIST == 6
NCURSES_MODE_BRANCH_VIEW == 7

SYNC_STATUS_IDLE == 0
SYNC_STATUS_SYNCING_APPEARING == 1
SYNC_STATUS_SYNCING_VISIBLE == 2
SYNC_STATUS_SYNCING_DISAPPEARING == 3
SYNC_STATUS_PUSHING_APPEARING == 4
SYNC_STATUS_PUSHING_VISIBLE == 5
SYNC_STATUS_PUSHING_DISAPPEARING == 6
SYNC_STATUS_PULLING_APPEARING == 7
SYNC_STATUS_PULLING_VISIBLE == 8
SYNC_STATUS_PULLING_DISAPPEARING == 9
SYNC_STATUS_SYNCED_APPEARING == 10
SYNC_STATUS_SYNCED_VISIBLE == 11
SYNC_STATUS_SYNCED_DISAPPEARING == 12
SYNC_STATUS_PUSHED_APPEARING == 13
SYNC_STATUS_PUSHED_VISIBLE == 14
SYNC_STATUS_PUSHED_DISAPPEARING == 15
SYNC_STATUS_PULLED_APPEARING == 16
SYNC_STATUS_PULLED_VISIBLE == 17
SYNC_STATUS_PULLED_DISAPPEARING == 18

DELETE_LOCAL == 0
DELETE_REMOTE == 1
DELETE_BOTH == 2
DELETE_CANCEL == 3

\* load_full_file_with_diff: "line_count < 50" and "char line[1024]" of the
\* new-file branch; MAX_FULL_FILE_LINES of the header
NewFileLineCap == 50
NewFileBuffer == 1024
MAX_FULL_FILE_LINES == 2000

\* terminal height reported by getmaxyx(stdscr, ...)
terminal_height == 8

VARIABLES
  repo,         \* the git repository and working tree (external collaborator)
  viewer,       \* the NCursesDiffViewer struct
  children,     \* forked fetch processes by pid: "none", "running", "exited"
  sync_due,     \* current_time - viewer->last_sync_time >= 30
  pc,           \* position in the main loop: "update", "input", "stopped"
  frame_no,     \* iterations of the main loop so far
  edits,        \* changes made to the working tree from outside so far
  obs,          \* what the last step did to the outside world
  reader,       \* the line editor of the shell: lsh_read_line and its statics
  history       \* the history ring of builtins.c and the calls made on it

vars == <<repo, viewer, children, sync_due, pc, frame_no, edits, obs, reader,
          history>>

(***************************************************************************)
(* Small helpers.                                                          *)
(***************************************************************************)
Min(a, b) == IF a < b THEN a ELSE b
Max(a, b) == IF a > b THEN a ELSE b

RECURSIVE SetToSortedSeq(_)
SetToSortedSeq(S) ==
  IF S = {} THEN <<>>
  ELSE LET m == CHOOSE x \in S : \A y \in S : x <= y
       IN <<m>> \o SetToSortedSeq(S \ {m})

NoObs == [key |-> "", events |-> <<>>, typed |-> <<>>]

\* the line editor before lsh_read_line is called
NoReader ==
  [state |-> "idle", stdin |-> "ok", c |-> "", buffer |-> <<>>,
   position |-> 0, aliases |-> <<>>,
   has_suggestion |-> 0, suggestion_index |-> 0, suggestions |-> <<>>,
   suggestion_count |-> 0, prefix_start |-> 0, menu_mode |-> 0,
   menu_start_line |-> 0, highlighted |-> -1]

\* builtins.c before the first command: command_history is zeroed static
\* storage.  calls is the list of the commands lsh_add_to_history was
\* called with; crashed is set when the process died in it.
NoEntry == [command |-> "", timestamp |-> 0]

NoHistory ==
  [command_history |-> [i \in 0..(HISTORY_SIZE - 1) |-> NoEntry],
   history_count |-> 0, history_index |-> 0,
   calls |-> <<>>, crashed |-> FALSE]

(***************************************************************************)
(* The repository as the git commands of the viewer see it.                *)
(*   files    : paths "git status --porcelain" lists                       *)
(*   stashes  : number of entries of "git stash list"                      *)
(*   branches : local branches, current the checked-out one                *)
(*   log[b]   : number of commits "git log" lists on branch b              *)
(*   upstream[b], ahead[b], behind[b] : the remote-tracking branch of b    *)
(*              and the rev-list counts against it                         *)
(***************************************************************************)
RepoOK(r) ==
  /\ r.current \in r.branches
  /\ \A b \in BranchNames :
        /\ r.ahead[b] <= r.log[b]
        /\ (~r.upstream[b]) => (r.ahead[b] = 0 /\ r.behind[b] = 0)
        /\ (b \notin r.branches) =>
              (r.log[b] = 0 /\ ~r.upstream[b])

\* commits of HEAD that "git log origin/HEAD..HEAD" lists
UnpushedCount(r) ==
  IF r.upstream[r.current] THEN r.ahead[r.current] ELSE 0

(***************************************************************************)
(* Panel data loaders.  Each takes the viewer struct and returns it after  *)
(* the call.                                                               *)
(***************************************************************************)
file_count(v) == Len(v.files)
commit_count(v) == Len(v.commits)
branch_count(v) == Len(v.branches)
file_line_count(v) == Len(v.file_lines)

get_ncurses_changed_files(v, r) ==
  LET names == SetToSortedSeq(r.files)
  IN [v EXCEPT !.files = [i \in 1..Len(names) |->
                            [filename |-> names[i], marked_for_commit |-> 0]]]

get_commit_history(v, r) ==
  LET n == r.log[r.current]
  IN [v EXCEPT !.commits = [i \in 1..n |->
                              [hash |-> n - i + 1,
                               is_pushed |-> IF i <= UnpushedCount(r)
                                             THEN 0 ELSE 1]]]

get_ncurses_git_stashes(v, r) == [v EXCEPT !.stash_count = r.stashes]

get_ncurses_git_branches(v, r) ==
  LET names == SetToSortedSeq(r.branches)
  IN [v EXCEPT !.branches = [i \in 1..Len(names) |->
        [name |-> names[i],
         status |-> IF names[i] = r.current THEN 1 ELSE 0,
         commits_ahead |-> IF r.upstream[names[i]]
                           THEN r.ahead[names[i]] ELSE 0,
         commits_behind |-> IF r.upstream[names[i]]
                            THEN r.behind[names[i]] ELSE 0]]]

\* load_full_file_with_diff: lines is the text git diff (or the file) gives
load_full_file_with_diff(v, filename, lines) ==
  [v EXCEPT !.file_lines = lines,
            !.file_scroll_offset = 0,
            !.file_cursor_line = 0,
            !.content = [kind |-> "file", id |-> filename]]

\* parse_content_lines on the text of a commit or a stash
parse_content_lines(v, kind, id, lines) ==
  [v EXCEPT !.file_lines = lines,
            !.file_scroll_offset = 0,
            !.file_cursor_line = 0,
            !.content = [kind |-> kind, id |-> id]]

\* load_commit_for_viewing: ok is the result of get_commit_details
load_commit_for_viewing(v, hash, ok, lines) ==
  IF ok THEN parse_content_lines(v, "commit", hash, lines) ELSE v

\* load_stash_for_viewing: ok is the result of get_stash_diff
load_stash_for_viewing(v, stash_index, ok, lines) ==
  IF stash_index < 0 THEN v
  ELSE IF ok THEN parse_content_lines(v, "stash", stash_index, lines) ELSE v

\* load_branch_commits: memoized on the branch name; n is what
\* get_branch_commits returns
load_branch_commits(v, branch_name, n) ==
  IF v.current_branch_for_commits = branch_name THEN v
  ELSE [v EXCEPT !.branch_commit_count = n,
                 !.current_branch_for_commits = branch_name]

\* parse_branch_commits_to_lines
parse_branch_commits_to_lines(v, lines) ==
  IF v.branch_commit_count = 0 THEN v
  ELSE [v EXCEPT !.file_lines = lines,
                 !.file_scroll_offset = 0,
                 !.file_cursor_line = 0,
                 !.content = [kind |-> "branch",
                              id |-> v.current_branch_for_commits]]

\* The selection fix-up repeated after every refresh of the file list:
\* "Reset file selection if no files remain" and "Reload current file".
ResetFileSelection(v) ==
  IF file_count(v) = 0
  THEN [v EXCEPT !.selected_file = 0, !.file_lines = <<>>,
                 !.file_scroll_offset = 0]
  ELSE IF v.selected_file >= file_count(v)
       THEN [v EXCEPT !.selected_file = file_count(v) - 1]
       ELSE v

ReloadCurrentFile(v, lines) ==
  IF file_count(v) > 0 /\ v.selected_file < file_count(v)
  THEN load_full_file_with_diff(v, v.files[v.selected_file + 1].filename,
                                lines)
  ELSE v

(***************************************************************************)
(* Status text animation of update_sync_status: the status bar instance    *)
(* (sync_status, animation_frame, text_char_count) and the per-branch      *)
(* instance (branch_push_status, branch_pull_status, sharing               *)
(* branch_animation_frame and branch_text_char_count).                     *)
(***************************************************************************)
AnimateStatusBar(v) ==
  IF v.sync_status = SYNC_STATUS_IDLE THEN v
  ELSE
    LET f == v.animation_frame + 1
        w == [v EXCEPT !.animation_frame = f]
        \* "Appearing": one character every div frames, len characters
        Appear(div, len, next) ==
          IF f \div div >= len
          THEN [w EXCEPT !.text_char_count = len, !.sync_status = next,
                         !.animation_frame = 0]
          ELSE [w EXCEPT !.text_char_count = f \div div]
        \* "Visible": hold for hold frames
        Hold(hold, len, next) ==
          IF f >= hold
          THEN [w EXCEPT !.sync_status = next, !.animation_frame = 0,
                         !.text_char_count = len]
          ELSE w
        \* "Disappearing" into the next animation
        Disappear(div, len, next) ==
          IF len - (f \div div) <= 0
          THEN [w EXCEPT !.text_char_count = 0, !.sync_status = next,
                         !.animation_frame = 0]
          ELSE [w EXCEPT !.text_char_count = len - (f \div div)]
        \* "Disappearing" into Idle (the frame counter is left alone)
        Vanish(div, len) ==
          IF len - (f \div div) <= 0
          THEN [w EXCEPT !.text_char_count = 0,
                         !.sync_status = SYNC_STATUS_IDLE]
          ELSE [w EXCEPT !.text_char_count = len - (f \div div)]
        s == v.sync_status
    IN CASE s = SYNC_STATUS_SYNCING_APPEARING ->
              Appear(2, 8, SYNC_STATUS_SYNCING_VISIBLE)
         [] s = SYNC_STATUS_SYNCING_VISIBLE ->
              Hold(48, 8, SYNC_STATUS_SYNCING_DISAPPEARING)
         [] s = SYNC_STATUS_SYNCING_DISAPPEARING ->
              Disappear(2, 8, SYNC_STATUS_SYNCED_APPEARING)
         [] s = SYNC_STATUS_PUSHING_APPEARING ->
              Appear(1, 7, SYNC_STATUS_PUSHING_VISIBLE)
         [] s = SYNC_STATUS_PUSHING_VISIBLE -> w
         [] s = SYNC_STATUS_PUSHING_DISAPPEARING ->
              Disappear(1, 7, SYNC_STATUS_PUSHED_APPEARING)
         [] s = SYNC_STATUS_PULLING_APPEARING ->
              Appear(2, 7, SYNC_STATUS_PULLING_VISIBLE)
         [] s = SYNC_STATUS_PULLING_VISIBLE ->
              Hold(24, 7, SYNC_STATUS_PULLING_DISAPPEARING)
         [] s = SYNC_STATUS_PULLING_DISAPPEARING ->
              Disappear(2, 7, SYNC_STATUS_PULLED_APPEARING)
         [] s = SYNC_STATUS_SYNCED_APPEARING ->
              Appear(2, 7, SYNC_STATUS_SYNCED_VISIBLE)
         [] s = SYNC_STATUS_SYNCED_VISIBLE ->
              Hold(60, 7, SYNC_STATUS_SYNCED_DISAPPEARING)
         [] s = SYNC_STATUS_SYNCED_DISAPPEARING -> Vanish(2, 7)
         [] s = SYNC_STATUS_PUSHED_APPEARING ->
              Appear(1, 7, SYNC_STATUS_PUSHED_VISIBLE)
         [] s = SYNC_STATUS_PUSHED_VISIBLE ->
              Hold(100, 7, SYNC_STATUS_PUSHED_DISAPPEARING)
         [] s = SYNC_STATUS_PUSHED_DISAPPEARING -> Vanish(1, 7)
         [] s = SYNC_STATUS_PULLED_APPEARING ->
              Appear(2, 7, SYNC_STATUS_PULLED_VISIBLE)
         [] s = SYNC_STATUS_PULLED_VISIBLE ->
              Hold(40, 7, SYNC_STATUS_PULLED_DISAPPEARING)
         [] s = SYNC_STATUS_PULLED_DISAPPEARING -> Vanish(2, 7)
         [] OTHER -> w

\* the "Pushed!" phases of the branch row
AnimateBranchPush(v) ==
  LET f == v.branch_animation_frame
      s == v.branch_push_status
  IN CASE s = SYNC_STATUS_PUSHED_APPEARING ->
            IF f >= 7
            THEN [v EXCEPT !.branch_text_char_count = 7,
                           !.branch_push_status = SYNC_STATUS_PUSHED_VISIBLE,
                           !.branch_animation_frame = 0]
            ELSE [v EXCEPT !.branch_text_char_count = f]
       [] s = SYNC_STATUS_PUSHED_VISIBLE ->
            IF f >= 100
            THEN [v EXCEPT !.branch_push_status =
                               SYNC_STATUS_PUSHED_DISAPPEARING,
                           !.branch_animation_frame = 0,
                           !.branch_text_char_count = 7]
            ELSE v
       [] s = SYNC_STATUS_PUSHED_DISAPPEARING ->
            IF 7 - f <= 0
            THEN [v EXCEPT !.branch_text_char_count = 0,
                           !.branch_push_status = SYNC_STATUS_IDLE,
                           !.pushing_branch_index = -1]
            ELSE [v EXCEPT !.branch_text_char_count = 7 - f]
       [] OTHER -> v

\* the "Pulled!" phases of the branch row
AnimateBranchPull(v) ==
  LET f == v.branch_animation_frame
      s == v.branch_pull_status
  IN CASE s = SYNC_STATUS_PULLED_APPEARING ->
            IF f \div 2 >= 7
            THEN [v EXCEPT !.branch_text_char_count = 7,
                           !.branch_pull_status = SYNC_STATUS_PULLED_VISIBLE,
                           !.branch_animation_frame = 0]
            ELSE [v EXCEPT !.branch_text_char_count = f \div 2]
       [] s = SYNC_STATUS_PULLED_VISIBLE ->
            IF f >= 40
            THEN [v EXCEPT !.branch_pull_status =
                               SYNC_STATUS_PULLED_DISAPPEARING,
                           !.branch_animation_frame = 0,
                           !.branch_text_char_count = 7]
            ELSE v
       [] s = SYNC_STATUS_PULLED_DISAPPEARING ->
            IF 7 - (f \div 2) <= 0
            THEN [v EXCEPT !.branch_text_char_count = 0,
                           !.branch_pull_status = SYNC_STATUS_IDLE,
                           !.pulling_branch_index = -1]
            ELSE [v EXCEPT !.branch_text_char_count = 7 - (f \div 2)]
       [] OTHER -> v

\* the branch row ticking only while a push status is shown
AnimateBranchRowPushOnly(v) ==
  IF v.branch_push_status # SYNC_STATUS_IDLE
  THEN AnimateBranchPull(AnimateBranchPush(
         [v EXCEPT !.branch_animation_frame = @ + 1]))
  ELSE v

AnimateBranchRow(v) ==
  IF v.branch_push_status # SYNC_STATUS_IDLE
     \/ v.branch_pull_status # SYNC_STATUS_IDLE
  THEN AnimateBranchPull(AnimateBranchPush(
         [v EXCEPT !.branch_animation_frame = @ + 1]))
  ELSE v

(***************************************************************************)
(* Background fetch.                                                       *)
(***************************************************************************)
FreePids == {p \in Pids : children[p] = "none"}

\* start_background_fetch: pid is the result of fork(), -1 when it fails
start_background_fetch(v, pid) ==
  IF v.fetch_in_progress = 1 \/ v.critical_operation_in_progress = 1 THEN v
  ELSE IF pid > 0
       THEN [v EXCEPT !.fetch_pid = pid,
                      !.fetch_in_progress = 1,
                      !.sync_status = SYNC_STATUS_SYNCING_APPEARING,
                      !.animation_frame = 0,
                      !.text_char_count = 0]
       ELSE [v EXCEPT !.fetch_pid = pid]

\* "Restore scroll position if still valid": l is the viewer after the
\* reload, which put cursor and scroll back to 0
RestorePositionCursorOnly(l, cursor, scroll) ==
  [l EXCEPT !.file_cursor_line =
               IF cursor < file_line_count(l) THEN cursor ELSE @]

RestorePosition(l, cursor, scroll) ==
  [l EXCEPT !.file_cursor_line =
               IF cursor < file_line_count(l) THEN cursor ELSE @,
            !.file_scroll_offset =
               IF scroll < file_line_count(l) THEN scroll ELSE @]

\* check_background_fetch, the branch "result == viewer->fetch_pid": lines
\* is the text the reload of the selected file reads, blines the text of
\* the branch commits
FetchCompleted(v, r, lines, blines) ==
  LET preserved_file_scroll == v.file_scroll_offset
      preserved_file_cursor == v.file_cursor_line
      preserved_selected_file == v.selected_file
      v0 == [v EXCEPT !.fetch_in_progress = 0, !.fetch_pid = -1]
      v1 == get_ncurses_git_branches(
              get_commit_history(get_ncurses_changed_files(v0, r), r), r)
      InFileMode == v1.current_mode \in
                      {NCURSES_MODE_FILE_LIST, NCURSES_MODE_FILE_VIEW}
      v2 == IF preserved_selected_file < file_count(v1)
               /\ InFileMode /\ file_count(v1) > 0
            THEN RestorePosition(
                   load_full_file_with_diff(v1,
                     v1.files[v1.selected_file + 1].filename, lines),
                   preserved_file_cursor, preserved_file_scroll)
            ELSE v1
      v3 == IF v2.current_mode = NCURSES_MODE_BRANCH_VIEW
               /\ branch_count(v2) > 0
               /\ v2.current_branch_for_commits # 0
            THEN RestorePosition(
                   parse_branch_commits_to_lines(
                     load_branch_commits(v2, v2.current_branch_for_commits,
                                         v2.branch_commit_count), blines),
                   v2.file_cursor_line, v2.file_scroll_offset)
            ELSE v2
  IN [v3 EXCEPT !.sync_status = SYNC_STATUS_SYNCED_APPEARING,
                !.animation_frame = 0,
                !.text_char_count = 0]

\* check_background_fetch: result is what waitpid(fetch_pid, WNOHANG) gave
CheckBackgroundFetchAnyResult(v, r, result, lines, blines) ==
  IF v.fetch_in_progress = 0 THEN v
  ELSE IF result = -1
  THEN [v EXCEPT !.fetch_in_progress = 0, !.fetch_pid = -1,
                 !.sync_status = SYNC_STATUS_IDLE]
  ELSE FetchCompleted(v, r, lines, blines)

check_background_fetch(v, r, result, lines, blines) ==
  IF v.fetch_in_progress = 0 THEN v
  ELSE IF result = v.fetch_pid
  THEN FetchCompleted(v, r, lines, blines)
  ELSE IF result = -1
  THEN [v EXCEPT !.fetch_in_progress = 0, !.fetch_pid = -1,
                 !.sync_status = SYNC_STATUS_IDLE]
  ELSE v

\* what waitpid(pid, &status, WNOHANG) can return for the fetch child
WaitpidResults(pid) ==
  IF pid \notin Pids THEN {-1}
  ELSE CASE children[pid] = "running" -> {0}
         [] children[pid] = "exited" -> {pid, -1}
         [] OTHER -> {-1}

\* a child waitpid reported (or found already gone) is no longer a child
Reaped(pid, result) ==
  IF pid \in Pids /\ result # 0
  THEN [children EXCEPT ![pid] = "none"]
  ELSE children

(***************************************************************************)
(* update_sync_status: one frame of the main loop.                         *)
(***************************************************************************)
\* the part after the sync check: "Always check if background fetch is
\* complete", then "Handle all animation states"
CheckAndAnimate ==
  \E result \in WaitpidResults(viewer.fetch_pid),
     lines \in ContentChoices :
    /\ viewer' = AnimateBranchRow(AnimateStatusBar(
         check_background_fetch(viewer, repo, result, lines, BranchText)))
    /\ children' = IF viewer.fetch_in_progress = 1
                   THEN Reaped(viewer.fetch_pid, result)
                   ELSE children

update_sync_status ==
  /\ pc = "update"
  /\ pc' = "input"
  /\ UNCHANGED repo
  /\ IF sync_due /\ viewer.critical_operation_in_progress = 0
        /\ viewer.fetch_in_progress = 0
     THEN /\ sync_due' = FALSE
          /\ \E pid \in (IF FreePids = {} THEN {-1}
                         ELSE {CHOOSE p \in FreePids :
                                 \A q \in FreePids : p <= q, -1}) :
               LET v == start_background_fetch(viewer, pid)
                   forked == pid > 0 /\ v.fetch_pid = pid
               IN /\ viewer' = v
                  /\ children' = IF forked
                                 THEN [children EXCEPT ![pid] = "running"]
                                 ELSE children
                  /\ obs' = [NoObs EXCEPT
                               !.key = "frame",
                               !.events = IF forked THEN <<"spawn:fetch">>
                                          ELSE <<>>]
     ELSE /\ UNCHANGED sync_due
          /\ obs' = [NoObs EXCEPT !.key = "frame"]
          /\ CheckAndAnimate

(***************************************************************************)
(* Construction: init_ncurses_diff_viewer, then the loads at the top of    *)
(* run_ncurses_diff_viewer.                                                *)
(***************************************************************************)
init_ncurses_diff_viewer ==
  [files |-> <<>>, selected_file |-> 0,
   file_lines |-> <<>>, content |-> [kind |-> "none", id |-> 0],
   file_scroll_offset |-> 0, file_cursor_line |-> 0,
   commits |-> <<>>, selected_commit |-> 0,
   stash_count |-> 0, selected_stash |-> 0,
   branches |-> <<>>, selected_branch |-> 0,
   current_mode |-> NCURSES_MODE_FILE_LIST,
   sync_status |-> SYNC_STATUS_IDLE,
   animation_frame |-> 0, text_char_count |-> 0,
   pushing_branch_index |-> -1, pulling_branch_index |-> -1,
   branch_push_status |-> SYNC_STATUS_IDLE,
   branch_pull_status |-> SYNC_STATUS_IDLE,
   branch_animation_frame |-> 0, branch_text_char_count |-> 0,
   critical_operation_in_progress |-> 0,
   fetch_pid |-> -1, fetch_in_progress |-> 0,
   branch_commit_count |-> 0, current_branch_for_commits |-> 0]

run_ncurses_diff_viewer(r, lines) ==
  LET v == get_commit_history(
             get_ncurses_git_branches(
               get_ncurses_git_stashes(
                 get_ncurses_changed_files(init_ncurses_diff_viewer, r), r),
               r), r)
  IN IF file_count(v) > 0
     THEN load_full_file_with_diff(v, v.files[1].filename, lines)
     ELSE v

\* repositories the viewer is started in
InitRepos ==
  {r \in [files : {FileNames}, stashes : {1},
          branches : {BranchNames}, current : {1},
          log : {[b \in BranchNames |-> IF b = 1 THEN 2 ELSE 1]},
          upstream : [BranchNames -> BOOLEAN],
          ahead : [BranchNames -> 0..1],
          behind : [BranchNames -> 0..MaxBehind]] :
     /\ RepoOK(r)
     /\ r.upstream[1]
     /\ ~r.upstream[2]}

Init ==
  /\ repo \in InitRepos
  /\ viewer = run_ncurses_diff_viewer(repo, [i \in 1..MaxLines |-> i # 2])
  /\ children = [p \in Pids |-> "none"]
  /\ sync_due = FALSE
  /\ pc = "update"
  /\ frame_no = 0
  /\ edits = 0
  /\ obs = NoObs
  /\ reader = NoReader
  /\ history = NoHistory

\* repositories whose two branches both track a remote branch, the one that
\* is not checked out being behind it
PullRepos ==
  {r \in [files : {FileNames}, stashes : {1},
          branches : {BranchNames}, current : {1},
          log : {[b \in BranchNames |-> IF b = 1 THEN 2 ELSE 1]},
          upstream : {[b \in BranchNames |-> TRUE]},
          ahead : {[b \in BranchNames |-> 0]},
          behind : [BranchNames -> 0..MaxBehind]] :
     RepoOK(r) /\ r.behind[2] > 0}

InitPull ==
  /\ repo \in PullRepos
  /\ viewer = run_ncurses_diff_viewer(repo, [i \in 1..MaxLines |-> i # 2])
  /\ children = [p \in Pids |-> "none"]
  /\ sync_due = FALSE
  /\ pc = "update"
  /\ frame_no = 0
  /\ edits = 0
  /\ obs = NoObs
  /\ reader = NoReader
  /\ history = NoHistory

(***************************************************************************)
(* handle_ncurses_diff_input.  Every key is one step: the handler runs to  *)
(* its return, dialogs and blocking waits included.                        *)
(***************************************************************************)
\* the handler returned 1: the loop goes on
ReturnedTyped(key, v, r, events, typed) ==
  /\ pc' = "update"
  /\ viewer' = v
  /\ repo' = r
  /\ obs' = [key |-> key, events |-> events, typed |-> typed]
  /\ UNCHANGED <<children, sync_due, frame_no, edits, reader, history>>

Returned(key, v, r, events) == ReturnedTyped(key, v, r, events, <<>>)

\* return from a flow that ran between
\* "critical_operation_in_progress = 1" and "... = 0"
EndCritical(v) == [v EXCEPT !.critical_operation_in_progress = 0]
ReturnedTypedC(key, v, r, events, typed) ==
  ReturnedTyped(key, EndCritical(v), r, events, typed)
ReturnedC(key, v, r, events) == ReturnedTypedC(key, v, r, events, <<>>)

\* the handler returned 0: the loop ends, cleanup_ncurses_diff_viewer runs
Exited(key) ==
  /\ pc' = "stopped"
  /\ obs' = [key |-> key, events |-> <<>>, typed |-> <<>>]
  /\ children' = IF viewer.fetch_in_progress = 1 /\ viewer.fetch_pid > 0
                 THEN [children EXCEPT ![viewer.fetch_pid] = "none"]
                 ELSE children
  /\ UNCHANGED <<viewer, repo, sync_due, frame_no, edits, reader, history>>

CommandResults == BOOLEAN

\* array reads at an index the list no longer covers see a stale entry
FileAt(v, i) == IF i < file_count(v) THEN v.files[i + 1].filename ELSE 0
CommitAt(v, i) == IF i < commit_count(v) THEN v.commits[i + 1].hash ELSE 0
BranchAt(v, i) == IF i < branch_count(v) THEN v.branches[i + 1].name ELSE 0

\* get_branch_commits: number of commits it lists for a branch
get_branch_commits(r, b) == IF b \in r.branches THEN r.log[b] ELSE 0

Mode(m) == pc = "input" /\ viewer.current_mode = m

KeyQuit ==
  /\ pc = "input"
  /\ Exited("q")

Key1 ==
  /\ pc = "input"
  /\ \E lines \in ContentChoices :
       Returned("1",
         ReloadCurrentFile(
           [viewer EXCEPT !.current_mode = NCURSES_MODE_FILE_LIST], lines),
         repo, <<>>)

Key2 ==
  /\ pc = "input"
  /\ \E lines \in ContentChoices :
       Returned("2",
         IF file_count(viewer) > 0
            /\ viewer.selected_file < file_count(viewer)
         THEN [ReloadCurrentFile(viewer, lines)
                 EXCEPT !.current_mode = NCURSES_MODE_FILE_VIEW]
         ELSE viewer,
         repo, <<>>)

Key3 ==
  /\ pc = "input"
  /\ LET v == [viewer EXCEPT !.current_mode = NCURSES_MODE_BRANCH_LIST]
         b == BranchAt(v, v.selected_branch)
     IN Returned("3",
          IF branch_count(v) > 0
          THEN load_branch_commits(v, b, get_branch_commits(repo, b))
          ELSE v,
          repo, <<>>)

\* '4' loading the commit preview without changing the mode
Key4KeepsMode ==
  /\ pc = "input"
  /\ \E ok \in CommandResults :
       Returned("4",
         IF commit_count(viewer) > 0
         THEN load_commit_for_viewing(
                viewer, CommitAt(viewer, viewer.selected_commit),
                ok, CommitText)
         ELSE viewer,
         repo, <<>>)

Key4 ==
  /\ pc = "input"
  /\ \E ok \in CommandResults :
       LET v == [viewer EXCEPT !.current_mode = NCURSES_MODE_COMMIT_LIST]
       IN Returned("4",
            IF commit_count(v) > 0
            THEN load_commit_for_viewing(v, CommitAt(v, v.selected_commit),
                                         ok, CommitText)
            ELSE v,
            repo, <<>>)

Key5 ==
  /\ pc = "input"
  /\ \E ok \in CommandResults :
       LET v == [viewer EXCEPT !.current_mode = NCURSES_MODE_STASH_LIST]
       IN Returned("5",
            IF v.stash_count > 0
            THEN load_stash_for_viewing(v, v.selected_stash, ok, StashText)
            ELSE v,
            repo, <<>>)

(***************************************************************************)
(* File list mode.                                                         *)
(***************************************************************************)
FileListEsc ==
  /\ Mode(NCURSES_MODE_FILE_LIST)
  /\ Exited("ESC")

FileListUp ==
  /\ Mode(NCURSES_MODE_FILE_LIST)
  /\ \E lines \in ContentChoices :
       Returned("UP",
         IF viewer.selected_file > 0
         THEN LET v == [viewer EXCEPT !.selected_file = @ - 1]
              IN IF file_count(v) > 0
                 THEN load_full_file_with_diff(
                        v, FileAt(v, v.selected_file), lines)
                 ELSE v
         ELSE viewer,
         repo, <<>>)

FileListDown ==
  /\ Mode(NCURSES_MODE_FILE_LIST)
  /\ \E lines \in ContentChoices :
       Returned("DOWN",
         IF viewer.selected_file < file_count(viewer) - 1
         THEN LET v == [viewer EXCEPT !.selected_file = @ + 1]
              IN IF file_count(v) > 0
                 THEN load_full_file_with_diff(
                        v, FileAt(v, v.selected_file), lines)
                 ELSE v
         ELSE viewer,
         repo, <<>>)

toggle_file_mark(v, file_index) ==
  IF file_index < 0 \/ file_index >= file_count(v) THEN v
  ELSE [v EXCEPT !.files[file_index + 1].marked_for_commit = 1 - @]

\* 'a' that marks every file whatever is marked already
MarkAllFilesNeverUnmarks(v) ==
  [v EXCEPT !.files = [i \in 1..file_count(v) |->
        [@[i] EXCEPT !.marked_for_commit = 1]]]

mark_all_files(v) ==
  LET all_marked == \A i \in 1..file_count(v) :
                       v.files[i].marked_for_commit = 1
  IN [v EXCEPT !.files = [i \in 1..file_count(v) |->
        [@[i] EXCEPT !.marked_for_commit = IF all_marked THEN 0 ELSE 1]]]

FileListSpace ==
  /\ Mode(NCURSES_MODE_FILE_LIST)
  /\ Returned("SPACE",
       IF file_count(viewer) > 0
          /\ viewer.selected_file < file_count(viewer)
       THEN toggle_file_mark(viewer, viewer.selected_file)
       ELSE viewer,
       repo, <<>>)

FileListMarkAll ==
  /\ Mode(NCURSES_MODE_FILE_LIST)
  /\ Returned("a", mark_all_files(viewer), repo, <<>>)

\* "git stash push": tracked changes leave the working tree, untracked
\* files stay
GitStashPush(r, rest) ==
  [r EXCEPT !.files = rest, !.stashes = @ + 1]

\* create_ncurses_git_stash once the stash exists
create_ncurses_git_stash(v, r, lines) ==
  LET v1 == get_commit_history(
              get_ncurses_git_stashes(get_ncurses_changed_files(v, r), r), r)
      v2 == [v1 EXCEPT !.selected_file = 0, !.file_lines = <<>>,
                       !.file_scroll_offset = 0]
  IN ReloadCurrentFile(v2, lines)

\* 's': the name dialog may be cancelled, create_git_stash_with_name
\* refuses a clean tree, "git stash push" may fail
FileListStash ==
  /\ Mode(NCURSES_MODE_FILE_LIST)
  /\ \/ ReturnedC("s", viewer, repo, <<"dialog:stash-name">>)
     \/ /\ repo.files # {}
        /\ ReturnedC("s", viewer, repo,
                    <<"dialog:stash-name", "git:stash-push">>)
     \/ /\ repo.files # {}
        /\ repo.stashes < MaxStashes
        /\ \E rest \in SUBSET repo.files, lines \in ContentChoices :
             LET r == GitStashPush(repo, rest)
             IN ReturnedC("s", create_ncurses_git_stash(viewer, r, lines), r,
                         <<"dialog:stash-name", "git:stash-push">>)

\* "git add" of the marked files, then "git commit"
MarkedFiles(v) ==
  {v.files[i].filename : i \in {j \in 1..file_count(v) :
                                   v.files[j].marked_for_commit = 1}}

GitCommit(r, marked) ==
  [r EXCEPT !.files = @ \ marked,
            !.log[r.current] = @ + 1,
            !.ahead[r.current] = IF r.upstream[r.current] THEN @ + 1 ELSE @]

\* commit_marked_files once "git commit" succeeded
commit_marked_files(v, r, lines) ==
  ReloadCurrentFile(
    ResetFileSelection(
      get_ncurses_git_branches(
        get_commit_history(get_ncurses_changed_files(v, r), r), r)),
    lines)

\* 'c': the title dialog may be cancelled; "git commit" fails when nothing
\* is staged and may fail otherwise
FileListCommit ==
  /\ Mode(NCURSES_MODE_FILE_LIST)
  /\ \/ ReturnedC("c", viewer, repo, <<"dialog:commit-title">>)
     \/ ReturnedC("c", viewer, repo, <<"dialog:commit-title", "git:commit">>)
     \/ /\ MarkedFiles(viewer) \cap repo.files # {}
        /\ repo.log[repo.current] < MaxCommits
        /\ \E lines \in ContentChoices :
             LET r == GitCommit(repo, MarkedFiles(viewer))
             IN ReturnedC("c", commit_marked_files(viewer, r, lines), r,
                         <<"dialog:commit-title", "git:commit">>)

FileListTab ==
  /\ Mode(NCURSES_MODE_FILE_LIST)
  /\ Returned("TAB",
       [viewer EXCEPT !.current_mode = NCURSES_MODE_COMMIT_LIST],
       repo, <<>>)

FileListEnter ==
  /\ Mode(NCURSES_MODE_FILE_LIST)
  /\ \E lines \in ContentChoices :
       Returned("ENTER",
         IF file_count(viewer) > 0
            /\ viewer.selected_file < file_count(viewer)
         THEN [ReloadCurrentFile(viewer, lines)
                 EXCEPT !.current_mode = NCURSES_MODE_FILE_VIEW]
         ELSE viewer,
         repo, <<>>)

(***************************************************************************)
(* The four view modes (file, commit, stash, branch view) share one        *)
(* scrolling handler; they differ in the list mode ESC returns to.         *)
(***************************************************************************)
ViewModes == {NCURSES_MODE_FILE_VIEW, NCURSES_MODE_COMMIT_VIEW,
              NCURSES_MODE_STASH_VIEW, NCURSES_MODE_BRANCH_VIEW}

\* every view mode returning to the file list
ListModeOfAlwaysFileList(m) ==
  IF m \in ViewModes THEN NCURSES_MODE_FILE_LIST ELSE m

ListModeOf(m) ==
  CASE m = NCURSES_MODE_FILE_VIEW -> NCURSES_MODE_FILE_LIST
    [] m = NCURSES_MODE_COMMIT_VIEW -> NCURSES_MODE_COMMIT_LIST
    [] m = NCURSES_MODE_STASH_VIEW -> NCURSES_MODE_STASH_LIST
    [] m = NCURSES_MODE_BRANCH_VIEW -> NCURSES_MODE_BRANCH_LIST
    [] OTHER -> m

\* handle_ncurses_diff_input: terminal_height - 4
max_lines_visible == terminal_height - 4

\* move_cursor_smart: height of file_content_win, minus 2
content_lines_visible == (terminal_height - 1 - Max(1, terminal_height \div 20)) - 2

InView == pc = "input" /\ viewer.current_mode \in ViewModes

\* a scan that stops on the next line whatever it holds
SmartScanOneStep(lines, cursor, direction, attempts) ==
  LET new_cursor == cursor + direction
  IN IF new_cursor < 0 THEN 0
     ELSE IF new_cursor >= Len(lines) THEN Len(lines) - 1
     ELSE new_cursor

\* the do-while of move_cursor_smart
RECURSIVE SmartScan(_, _, _, _)
SmartScan(lines, cursor, direction, attempts) ==
  LET new_cursor == cursor + direction
      a == attempts + 1
  IN IF new_cursor < 0 THEN 0
     ELSE IF new_cursor >= Len(lines) THEN Len(lines) - 1
     ELSE IF lines[new_cursor + 1] \/ a >= Len(lines) THEN new_cursor
     ELSE SmartScan(lines, new_cursor, direction, a)

move_cursor_smart(v, direction) ==
  IF file_line_count(v) = 0 THEN v
  ELSE
    LET c == SmartScan(v.file_lines, v.file_cursor_line, direction, 0)
        w == [v EXCEPT !.file_cursor_line = c]
    IN IF direction = -1
       THEN IF c < v.file_scroll_offset + 3 /\ v.file_scroll_offset > 0
            THEN [w EXCEPT !.file_scroll_offset = @ - 1]
            ELSE w
       ELSE IF c >= v.file_scroll_offset + content_lines_visible - 3
               /\ v.file_scroll_offset
                    < file_line_count(v) - content_lines_visible
            THEN [w EXCEPT !.file_scroll_offset = @ + 1]
            ELSE w

ViewEsc ==
  /\ InView
  /\ Returned("ESC",
       [viewer EXCEPT !.current_mode = ListModeOf(@)], repo, <<>>)

ViewUp ==
  /\ InView
  /\ Returned("UP", move_cursor_smart(viewer, -1), repo, <<>>)

ViewDown ==
  /\ InView
  /\ Returned("DOWN", move_cursor_smart(viewer, 1), repo, <<>>)

ViewPageUp ==
  /\ InView
  /\ Returned("PPAGE",
       [viewer EXCEPT !.file_scroll_offset = Max(@ - max_lines_visible, 0)],
       repo, <<>>)

ViewCtrlU ==
  /\ InView
  /\ LET c == Max(viewer.file_cursor_line - (max_lines_visible \div 2), 0)
     IN Returned("CTRL_U",
          [viewer EXCEPT
             !.file_cursor_line = c,
             !.file_scroll_offset = IF c < @ + 3 THEN Max(c - 3, 0) ELSE @],
          repo, <<>>)

ViewCtrlD ==
  /\ InView
  /\ LET moved == viewer.file_cursor_line + (max_lines_visible \div 2)
         c == IF moved >= file_line_count(viewer)
              THEN file_line_count(viewer) - 1 ELSE moved
     IN Returned("CTRL_D",
          [viewer EXCEPT
             !.file_cursor_line = c,
             !.file_scroll_offset =
                IF c >= @ + max_lines_visible - 3
                THEN Max(Min(c - max_lines_visible + 4,
                             file_line_count(viewer) - max_lines_visible), 0)
                ELSE @],
          repo, <<>>)

ViewPageDown ==
  /\ InView
  /\ Returned("NPAGE",
       IF file_line_count(viewer) > max_lines_visible
       THEN [viewer EXCEPT !.file_scroll_offset =
               Min(@ + max_lines_visible,
                   file_line_count(viewer) - max_lines_visible)]
       ELSE viewer,
       repo, <<>>)

(***************************************************************************)
(* Commit list mode.                                                       *)
(***************************************************************************)
CommitListEsc ==
  /\ Mode(NCURSES_MODE_COMMIT_LIST)
  /\ \E key \in {"ESC", "TAB"} :
       Returned(key,
         [viewer EXCEPT !.current_mode = NCURSES_MODE_FILE_LIST], repo, <<>>)

CommitListUp ==
  /\ Mode(NCURSES_MODE_COMMIT_LIST)
  /\ \E ok \in CommandResults :
       Returned("UP",
         IF viewer.selected_commit > 0
         THEN LET v == [viewer EXCEPT !.selected_commit = @ - 1]
              IN IF commit_count(v) > 0
                 THEN load_commit_for_viewing(
                        v, CommitAt(v, v.selected_commit), ok, CommitText)
                 ELSE v
         ELSE viewer,
         repo, <<>>)

CommitListDown ==
  /\ Mode(NCURSES_MODE_COMMIT_LIST)
  /\ \E ok \in CommandResults :
       Returned("DOWN",
         IF viewer.selected_commit < commit_count(viewer) - 1
         THEN LET v == [viewer EXCEPT !.selected_commit = @ + 1]
              IN IF commit_count(v) > 0
                 THEN load_commit_for_viewing(
                        v, CommitAt(v, v.selected_commit), ok, CommitText)
                 ELSE v
         ELSE viewer,
         repo, <<>>)

CommitListEnter ==
  /\ Mode(NCURSES_MODE_COMMIT_LIST)
  /\ \E ok \in CommandResults :
       Returned("ENTER",
         IF commit_count(viewer) > 0
            /\ viewer.selected_commit < commit_count(viewer)
         THEN [load_commit_for_viewing(
                 viewer, CommitAt(viewer, viewer.selected_commit), ok,
                 CommitText)
                 EXCEPT !.current_mode = NCURSES_MODE_COMMIT_VIEW]
         ELSE viewer,
         repo, <<>>)

\* check_branch_divergence: commits both ahead of and behind @{u}
CheckBranchDivergenceEitherSide(r) ==
  /\ r.upstream[r.current]
  /\ (r.ahead[r.current] > 0 \/ r.behind[r.current] > 0)

check_branch_divergence(r) ==
  /\ r.upstream[r.current]
  /\ r.ahead[r.current] > 0
  /\ r.behind[r.current] > 0

\* show_diverged_branch_dialog: ch is the key that ends the dialog
DivergedDialogKeys == {"y", "n", "ESC", "ENTER"}
DivergedDialogAlwaysConfirms(ch) == IF ch = "y" THEN 1 ELSE 1

show_diverged_branch_dialog(ch) == IF ch = "y" THEN 1 ELSE 0

\* "git push origin", "git push --force-with-lease origin" and
\* "git push --set-upstream" when they succeed
GitPush(r, force) ==
  [r EXCEPT !.ahead[r.current] = 0,
            !.behind[r.current] = IF force THEN 0 ELSE @]

GitPushSetUpstream(r) ==
  [r EXCEPT !.upstream[r.current] = TRUE,
            !.ahead[r.current] = 0,
            !.behind[r.current] = 0]

\* index of the branch row with status 1, or the old value
CurrentBranchRow(v, old) ==
  IF \E i \in 1..branch_count(v) : v.branches[i].status = 1
  THEN (CHOOSE i \in 1..branch_count(v) :
          /\ v.branches[i].status = 1
          /\ \A j \in 1..(i - 1) : v.branches[j].status # 1) - 1
  ELSE old

\* what the environment decides during a push
PushInputs(r) ==
  IF ~r.upstream[r.current]
  THEN [name_ok : BOOLEAN, upstream_chosen : BOOLEAN, sys_ok : BOOLEAN,
        ch : {"n"}, fork_ok : {TRUE}, push_ok : {TRUE}, spin : {0}]
  ELSE [name_ok : BOOLEAN, upstream_chosen : {FALSE}, sys_ok : {TRUE},
        ch : IF check_branch_divergence(r) THEN DivergedDialogKeys
             ELSE {"n"},
        fork_ok : BOOLEAN, push_ok : BOOLEAN, spin : 0..MaxSpin]

push_commit(v, r, in) ==
  LET idle == [v EXCEPT !.sync_status = SYNC_STATUS_IDLE]
      is_diverged == check_branch_divergence(r)
      spawn == IF is_diverged THEN "spawn:push-force" ELSE "spawn:push"
      dlg == IF is_diverged THEN <<"dialog:diverged">> ELSE <<>>
      typed == IF is_diverged THEN <<in.ch>> ELSE <<>>
  IN
  IF ~in.name_ok
  THEN [v |-> idle, r |-> r, events |-> <<"popup">>, typed |-> <<>>]
  ELSE IF ~r.upstream[r.current]
  THEN IF in.upstream_chosen
       THEN IF in.sys_ok
            THEN LET r2 == GitPushSetUpstream(r)
                 IN [v |-> get_commit_history(
                             [v EXCEPT
                                !.sync_status = SYNC_STATUS_PUSHED_APPEARING,
                                !.animation_frame = 0,
                                !.text_char_count = 0], r2),
                     r |-> r2,
                     events |-> <<"dialog:upstream", "git:push-set-upstream">>,
                     typed |-> <<>>]
            ELSE [v |-> idle, r |-> r,
                  events |-> <<"dialog:upstream", "git:push-set-upstream",
                               "popup">>,
                  typed |-> <<>>]
       ELSE [v |-> idle, r |-> r, events |-> <<"dialog:upstream">>,
             typed |-> <<>>]
  ELSE IF is_diverged /\ show_diverged_branch_dialog(in.ch) = 0
  THEN [v |-> idle, r |-> r, events |-> dlg, typed |-> typed]
  ELSE
    LET v1 == [v EXCEPT
                 !.pushing_branch_index = CurrentBranchRow(v, @),
                 !.branch_push_status = SYNC_STATUS_PUSHING_VISIBLE,
                 !.branch_animation_frame = 0,
                 !.branch_text_char_count = 7]
    IN IF in.fork_ok /\ in.push_ok
       THEN LET r2 == GitPush(r, is_diverged)
            IN [v |-> get_ncurses_git_branches(get_commit_history(
                        [v1 EXCEPT
                           !.sync_status = SYNC_STATUS_PUSHED_APPEARING,
                           !.animation_frame = 0,
                           !.text_char_count = 0,
                           !.branch_push_status =
                              SYNC_STATUS_PUSHED_APPEARING,
                           !.branch_animation_frame = 0,
                           !.branch_text_char_count = 0], r2), r2),
                r |-> r2,
                events |-> dlg \o <<spawn>>,
                typed |-> typed]
       ELSE [v |-> [v1 EXCEPT
                      !.sync_status = SYNC_STATUS_IDLE,
                      !.pushing_branch_index = -1,
                      !.branch_push_status = SYNC_STATUS_IDLE,
                      !.branch_animation_frame =
                         IF in.fork_ok THEN in.spin ELSE 0],
             r |-> r,
             events |-> dlg \o (IF in.fork_ok THEN <<spawn>> ELSE <<>>)
                            \o <<"popup">>,
             typed |-> typed]

\* 'P'
CommitListPush ==
  /\ Mode(NCURSES_MODE_COMMIT_LIST)
  /\ IF commit_count(viewer) > 0
        /\ viewer.selected_commit < commit_count(viewer)
     THEN \E in \in PushInputs(repo) :
            LET v0 == [viewer EXCEPT
                         !.critical_operation_in_progress = 1,
                         !.sync_status = SYNC_STATUS_PUSHING_VISIBLE,
                         !.animation_frame = 0,
                         !.text_char_count = 7]
                out == push_commit(v0, repo, in)
            IN ReturnedTyped("P",
                 [out.v EXCEPT !.critical_operation_in_progress = 0],
                 out.r, out.events, out.typed)
     ELSE Returned("P", viewer, repo, <<>>)

\* show_reset_confirmation_dialog: the keys the user presses while the
\* dialog is open.  result 1 = confirmed, 0 = cancelled, -1 = the dialog
\* is still waiting after the last key; rest = keys left unread.
DialogKeys == {"y", "Y", "e", "s", "BS", "ENTER", "ESC"}

ToLower(ch) == IF ch = "Y" THEN "y" ELSE ch

IsYesPrefix(buf) ==
  /\ Len(buf) >= 1
  /\ ToLower(buf[1]) = "y"

\* strcasecmp(input_buffer, "yes") == 0
IsYes(buf) ==
  /\ Len(buf) = 3
  /\ [i \in 1..3 |-> ToLower(buf[i])] = <<"y", "e", "s">>

RECURSIVE show_reset_confirmation_dialog(_, _)
show_reset_confirmation_dialog(keys, input_buffer) ==
  IF keys = <<>> THEN [result |-> -1, typed |-> <<>>, rest |-> <<>>]
  ELSE
    LET ch == Head(keys)
        more == Tail(keys)
    IN CASE ch = "ESC" -> [result |-> 0, typed |-> <<>>, rest |-> more]
         [] ch = "ENTER" ->
              IF IsYes(input_buffer)
              THEN [result |-> 1, typed |-> input_buffer, rest |-> more]
              ELSE show_reset_confirmation_dialog(more, <<>>)
         [] ch = "BS" ->
              show_reset_confirmation_dialog(more,
                IF Len(input_buffer) > 0
                THEN SubSeq(input_buffer, 1, Len(input_buffer) - 1)
                ELSE input_buffer)
         [] OTHER ->
              show_reset_confirmation_dialog(more,
                IF Len(input_buffer) < 8
                THEN Append(input_buffer, ch) ELSE input_buffer)

\* what a dialog session can end with
ResetDialogOutcomes ==
  {[result |-> o.result, typed |-> o.typed] :
     o \in {d \in {show_reset_confirmation_dialog(keys, <<>>) :
                     keys \in UNION {[1..n -> DialogKeys] :
                                       n \in 1..MaxDialogKeys}} :
              d.result # -1 /\ d.rest = <<>>}}

\* "git reset --soft HEAD~1": the commit's changes come back as staged
\* changes; a commit that was on the upstream is now one the branch lacks
GitReset(r, files) ==
  LET c == r.current
  IN [r EXCEPT !.files = files,
               !.log[c] = @ - 1,
               !.ahead[c] = IF @ > 0 THEN @ - 1 ELSE 0,
               !.behind[c] = IF r.upstream[c] /\ r.ahead[c] = 0
                             THEN @ + 1 ELSE @]

CanReset(r) ==
  /\ r.log[r.current] >= 2
  /\ (r.upstream[r.current] /\ r.ahead[r.current] = 0)
        => r.behind[r.current] < MaxBehind

\* reset_commit_soft once "git reset --soft" succeeded
reset_commit_soft(v, r, lines) ==
  ReloadCurrentFile(
    get_commit_history(get_ncurses_changed_files(v, r), r), lines)

\* reset_commit_hard once "git reset --hard" succeeded
reset_commit_hard(v, r, lines) ==
  LET v1 == get_commit_history(get_ncurses_changed_files(v, r), r)
  IN ReloadCurrentFile(
       [v1 EXCEPT !.selected_file = 0, !.file_lines = <<>>,
                  !.file_scroll_offset = 0], lines)

\* 'r'
CommitListResetSoft ==
  /\ Mode(NCURSES_MODE_COMMIT_LIST)
  /\ IF commit_count(viewer) > 0 /\ viewer.selected_commit = 0
     THEN \/ ReturnedC("r", viewer, repo, <<"git:reset-soft">>)
          \/ /\ CanReset(repo)
             /\ \E staged \in SUBSET FileNames \ {{}},
                   lines \in ContentChoices :
                  LET r == GitReset(repo, repo.files \cup staged)
                  IN ReturnedC("r", reset_commit_soft(viewer, r, lines), r,
                              <<"git:reset-soft">>)
     ELSE Returned("r", viewer, repo, <<>>)

\* 'R'
CommitListResetHard ==
  /\ Mode(NCURSES_MODE_COMMIT_LIST)
  /\ IF commit_count(viewer) > 0 /\ viewer.selected_commit = 0
     THEN \E d \in ResetDialogOutcomes :
            IF d.result = 0
            THEN ReturnedC("R", viewer, repo, <<"dialog:reset">>)
            ELSE \/ ReturnedTypedC("R", viewer, repo,
                      <<"dialog:reset", "git:reset-hard">>, d.typed)
                 \/ /\ CanReset(repo)
                    /\ \E kept \in SUBSET repo.files,
                          lines \in ContentChoices :
                         LET r == GitReset(repo, kept)
                         IN ReturnedTypedC("R",
                              reset_commit_hard(viewer, r, lines), r,
                              <<"dialog:reset", "git:reset-hard">>, d.typed)
     ELSE Returned("R", viewer, repo, <<>>)

\* "git commit --amend" after "git add" of the marked files: a commit the
\* upstream has is replaced by one it does not have
GitAmend(r, marked) ==
  LET c == r.current
      pushed == r.upstream[c] /\ r.ahead[c] = 0
  IN [r EXCEPT !.files = @ \ marked,
               !.ahead[c] = IF pushed THEN 1 ELSE @,
               !.behind[c] = IF pushed THEN @ + 1 ELSE @]

CanAmend(r) ==
  /\ r.log[r.current] >= 1
  /\ (r.upstream[r.current] /\ r.ahead[r.current] = 0)
        => r.behind[r.current] < MaxBehind

\* amend_commit once "git commit --amend" succeeded
amend_commit(v, r, lines) ==
  ReloadCurrentFile(
    ResetFileSelection(
      get_commit_history(get_ncurses_changed_files(v, r), r)), lines)

\* 'a'
CommitListAmend ==
  /\ Mode(NCURSES_MODE_COMMIT_LIST)
  /\ IF commit_count(viewer) > 0
     THEN \/ ReturnedC("a", viewer, repo, <<"dialog:commit-title">>)
          \/ ReturnedC("a", viewer, repo,
                      <<"dialog:commit-title", "git:amend">>)
          \/ /\ CanAmend(repo)
             /\ \E lines \in ContentChoices :
                  LET r == GitAmend(repo, MarkedFiles(viewer))
                  IN ReturnedC("a", amend_commit(viewer, r, lines), r,
                              <<"dialog:commit-title", "git:amend">>)
     ELSE Returned("a", viewer, repo, <<>>)

(***************************************************************************)
(* Stash list mode.                                                        *)
(***************************************************************************)
StashListEsc ==
  /\ Mode(NCURSES_MODE_STASH_LIST)
  /\ \E key \in {"ESC", "TAB"} :
       Returned(key,
         [viewer EXCEPT !.current_mode = NCURSES_MODE_FILE_LIST], repo, <<>>)

StashListUp ==
  /\ Mode(NCURSES_MODE_STASH_LIST)
  /\ \E ok \in CommandResults :
       Returned("UP",
         IF viewer.selected_stash > 0
         THEN LET v == [viewer EXCEPT !.selected_stash = @ - 1]
              IN IF v.stash_count > 0
                 THEN load_stash_for_viewing(v, v.selected_stash, ok,
                                             StashText)
                 ELSE v
         ELSE viewer,
         repo, <<>>)

StashListDown ==
  /\ Mode(NCURSES_MODE_STASH_LIST)
  /\ \E ok \in CommandResults :
       Returned("DOWN",
         IF viewer.selected_stash < viewer.stash_count - 1
         THEN LET v == [viewer EXCEPT !.selected_stash = @ + 1]
              IN IF v.stash_count > 0
                 THEN load_stash_for_viewing(v, v.selected_stash, ok,
                                             StashText)
                 ELSE v
         ELSE viewer,
         repo, <<>>)

StashListEnter ==
  /\ Mode(NCURSES_MODE_STASH_LIST)
  /\ \E ok \in CommandResults :
       Returned("ENTER",
         IF viewer.stash_count > 0
            /\ viewer.selected_stash < viewer.stash_count
         THEN [load_stash_for_viewing(viewer, viewer.selected_stash, ok,
                                      StashText)
                 EXCEPT !.current_mode = NCURSES_MODE_STASH_VIEW]
         ELSE viewer,
         repo, <<>>)

StashSelected ==
  viewer.stash_count > 0 /\ viewer.selected_stash < viewer.stash_count

\* apply_git_stash / pop_git_stash / drop_git_stash when they succeed
apply_git_stash(r, changed) == [r EXCEPT !.files = @ \cup changed]
pop_git_stash(r, changed) ==
  [r EXCEPT !.files = @ \cup changed, !.stashes = @ - 1]
drop_git_stash(r) == [r EXCEPT !.stashes = @ - 1]

\* "Adjust selected stash if needed"
AdjustSelectedStash(v) ==
  IF v.selected_stash >= v.stash_count /\ v.stash_count > 0
  THEN [v EXCEPT !.selected_stash = v.stash_count - 1]
  ELSE v

\* Space
StashListApply ==
  /\ Mode(NCURSES_MODE_STASH_LIST)
  /\ IF StashSelected
     THEN \/ ReturnedC("SPACE", viewer, repo, <<"git:stash-apply">>)
          \/ /\ repo.stashes > 0
             /\ \E changed \in SUBSET FileNames \ {{}},
                   lines \in ContentChoices :
                  LET r == apply_git_stash(repo, changed)
                  IN ReturnedC("SPACE",
                       ReloadCurrentFile(
                         ResetFileSelection(
                           get_commit_history(
                             get_ncurses_changed_files(viewer, r), r)),
                         lines),
                       r, <<"git:stash-apply">>)
     ELSE Returned("SPACE", viewer, repo, <<>>)

\* 'g'
StashListPop ==
  /\ Mode(NCURSES_MODE_STASH_LIST)
  /\ IF StashSelected
     THEN \/ ReturnedC("g", viewer, repo, <<"git:stash-pop">>)
          \/ /\ repo.stashes > 0
             /\ \E changed \in SUBSET FileNames \ {{}},
                   lines \in ContentChoices :
                  LET r == pop_git_stash(repo, changed)
                  IN ReturnedC("g",
                       ReloadCurrentFile(
                         ResetFileSelection(
                           AdjustSelectedStash(
                             get_commit_history(
                               get_ncurses_git_stashes(
                                 get_ncurses_changed_files(viewer, r), r),
                               r))),
                         lines),
                       r, <<"git:stash-pop">>)
     ELSE Returned("g", viewer, repo, <<>>)

\* 'd'
StashListDrop ==
  /\ Mode(NCURSES_MODE_STASH_LIST)
  /\ IF StashSelected
     THEN \/ ReturnedC("d", viewer, repo, <<"git:stash-drop">>)
          \/ /\ repo.stashes > 0
             /\ LET r == drop_git_stash(repo)
                IN ReturnedC("d",
                     AdjustSelectedStash(get_ncurses_git_stashes(viewer, r)),
                     r, <<"git:stash-drop">>)
     ELSE Returned("d", viewer, repo, <<>>)

(***************************************************************************)
(* Branch list mode.                                                       *)
(***************************************************************************)
BranchListEsc ==
  /\ Mode(NCURSES_MODE_BRANCH_LIST)
  /\ \E key \in {"ESC", "TAB"} :
       Returned(key,
         [viewer EXCEPT !.current_mode = NCURSES_MODE_FILE_LIST], repo, <<>>)

LoadSelectedBranch(v, r) ==
  LET b == BranchAt(v, v.selected_branch)
  IN load_branch_commits(v, b, get_branch_commits(r, b))

BranchListUp ==
  /\ Mode(NCURSES_MODE_BRANCH_LIST)
  /\ Returned("UP",
       IF viewer.selected_branch > 0
       THEN LET v == [viewer EXCEPT !.selected_branch = @ - 1]
            IN IF branch_count(v) > 0 THEN LoadSelectedBranch(v, repo) ELSE v
       ELSE viewer,
       repo, <<>>)

BranchListDown ==
  /\ Mode(NCURSES_MODE_BRANCH_LIST)
  /\ Returned("DOWN",
       IF viewer.selected_branch < branch_count(viewer) - 1
       THEN LET v == [viewer EXCEPT !.selected_branch = @ + 1]
            IN IF branch_count(v) > 0 THEN LoadSelectedBranch(v, repo) ELSE v
       ELSE viewer,
       repo, <<>>)

BranchSelected ==
  branch_count(viewer) > 0 /\ viewer.selected_branch < branch_count(viewer)

BranchListEnter ==
  /\ Mode(NCURSES_MODE_BRANCH_LIST)
  /\ Returned("ENTER",
       IF BranchSelected
       THEN [parse_branch_commits_to_lines(
               LoadSelectedBranch(viewer, repo), BranchText)
               EXCEPT !.current_mode = NCURSES_MODE_BRANCH_VIEW]
       ELSE viewer,
       repo, <<>>)

\* the refresh and file fix-up after a checkout, a new branch or a pull
RefreshAfterBranchChange(v, r, lines) ==
  ReloadCurrentFile(
    ResetFileSelection(
      get_ncurses_git_branches(
        get_commit_history(get_ncurses_changed_files(v, r), r), r)),
    lines)

GitCheckout(r, b) == [r EXCEPT !.current = b]

\* 'c'
BranchListCheckout ==
  /\ Mode(NCURSES_MODE_BRANCH_LIST)
  /\ IF BranchSelected
     THEN LET b == BranchAt(viewer, viewer.selected_branch)
          IN \/ ReturnedC("c", viewer, repo, <<"git:checkout">>)
             \/ /\ b \in repo.branches
                /\ \E lines \in ContentChoices :
                     LET r == GitCheckout(repo, b)
                     IN ReturnedC("c",
                          RefreshAfterBranchChange(viewer, r, lines), r,
                          <<"git:checkout">>)
     ELSE Returned("c", viewer, repo, <<>>)

\* "git checkout -b": the new branch starts at HEAD, without upstream
create_git_branch(r, nb) ==
  [r EXCEPT !.branches = @ \cup {nb},
            !.current = nb,
            !.log[nb] = r.log[r.current],
            !.upstream[nb] = FALSE,
            !.ahead[nb] = 0,
            !.behind[nb] = 0]

\* row of the branch called name, or the old selection
FindBranch(v, name) ==
  IF \E i \in 1..branch_count(v) : v.branches[i].name = name
  THEN (CHOOSE i \in 1..branch_count(v) : v.branches[i].name = name) - 1
  ELSE v.selected_branch

\* 'n'
BranchListNew ==
  /\ Mode(NCURSES_MODE_BRANCH_LIST)
  /\ \/ ReturnedC("n", viewer, repo, <<"dialog:branch-name">>)
     \/ ReturnedC("n", viewer, repo,
                 <<"dialog:branch-name", "git:checkout-b">>)
     \/ \E nb \in BranchNames \ repo.branches, lines \in ContentChoices :
          LET r == create_git_branch(repo, nb)
              v1 == get_ncurses_git_branches(
                      get_commit_history(
                        get_ncurses_changed_files(viewer, r), r), r)
              v2 == [v1 EXCEPT !.selected_branch = FindBranch(v1, nb)]
          IN ReturnedC("n",
               ReloadCurrentFile(ResetFileSelection(v2), lines), r,
               <<"dialog:branch-name", "git:checkout-b">>)

\* "git branch -D" and "git push origin --delete" when they succeed
GitBranchDelete(r, b) ==
  [r EXCEPT !.branches = @ \ {b},
            !.log[b] = 0,
            !.upstream[b] = FALSE,
            !.ahead[b] = 0,
            !.behind[b] = 0]

GitPushDelete(r, b) ==
  [r EXCEPT !.upstream[b] = FALSE, !.ahead[b] = 0, !.behind[b] = 0]

CanDeleteLocal(r, b) == b \in r.branches /\ b # r.current

\* "Adjust selection if needed" after the branch list was reloaded
AdjustSelectedBranch(v) ==
  IF v.selected_branch >= branch_count(v) /\ branch_count(v) > 0
  THEN [v EXCEPT !.selected_branch = branch_count(v) - 1]
  ELSE v

\* delete_git_branch without the test for an upstream
DeleteGitBranchNoUpstreamCheck(r, b, option) ==
  IF option = DELETE_CANCEL
  THEN {[r |-> r, success |-> FALSE, events |-> <<>>]}
  ELSE IF option = DELETE_LOCAL
  THEN {[r |-> r, success |-> FALSE, events |-> <<"git:branch-D">>]}
       \cup (IF CanDeleteLocal(r, b)
             THEN {[r |-> GitBranchDelete(r, b), success |-> TRUE,
                    events |-> <<"git:branch-D">>]}
             ELSE {})
  ELSE IF option = DELETE_REMOTE
  THEN {[r |-> r, success |-> FALSE, events |-> <<"git:push-delete">>],
        [r |-> GitPushDelete(r, b), success |-> TRUE,
         events |-> <<"git:push-delete">>]}
  ELSE {[r |-> r, success |-> FALSE, events |-> <<"git:branch-D">>]}
       \cup (IF CanDeleteLocal(r, b)
             THEN {[r |-> GitBranchDelete(r, b), success |-> FALSE,
                    events |-> <<"git:branch-D", "git:push-delete">>],
                   [r |-> GitBranchDelete(r, b), success |-> TRUE,
                    events |-> <<"git:branch-D", "git:push-delete">>]}
             ELSE {})

\* delete_git_branch: the repositories it can leave behind, each with its
\* return value and what it did
delete_git_branch(r, b, option) ==
  IF option = DELETE_CANCEL
  THEN {[r |-> r, success |-> FALSE, events |-> <<>>]}
  ELSE IF option \in {DELETE_REMOTE, DELETE_BOTH} /\ ~r.upstream[b]
  THEN {[r |-> r, success |-> FALSE, events |-> <<"popup">>]}
  ELSE IF option = DELETE_LOCAL
  THEN {[r |-> r, success |-> FALSE, events |-> <<"git:branch-D">>]}
       \cup (IF CanDeleteLocal(r, b)
             THEN {[r |-> GitBranchDelete(r, b), success |-> TRUE,
                    events |-> <<"git:branch-D">>]}
             ELSE {})
  ELSE IF option = DELETE_REMOTE
  THEN {[r |-> r, success |-> FALSE, events |-> <<"git:push-delete">>],
        [r |-> GitPushDelete(r, b), success |-> TRUE,
         events |-> <<"git:push-delete">>]}
  ELSE {[r |-> r, success |-> FALSE, events |-> <<"git:branch-D">>]}
       \cup (IF CanDeleteLocal(r, b)
             THEN {[r |-> GitBranchDelete(r, b), success |-> FALSE,
                    events |-> <<"git:branch-D", "git:push-delete">>],
                   [r |-> GitBranchDelete(r, b), success |-> TRUE,
                    events |-> <<"git:branch-D", "git:push-delete">>]}
             ELSE {})

\* 'd'
BranchListDelete ==
  /\ Mode(NCURSES_MODE_BRANCH_LIST)
  /\ IF BranchSelected
     THEN LET v0 == [viewer EXCEPT !.critical_operation_in_progress = 1]
              row == v0.branches[v0.selected_branch + 1]
          IN IF row.status = 1
             THEN Returned("d", v0, repo, <<"popup:current-branch">>)
             ELSE \E option \in {DELETE_LOCAL, DELETE_REMOTE, DELETE_BOTH,
                                 DELETE_CANCEL} :
                    \E out \in delete_git_branch(repo, row.name, option) :
                      Returned("d",
                        [(IF out.success
                          THEN AdjustSelectedBranch(
                                 get_ncurses_git_branches(v0, out.r))
                          ELSE v0)
                           EXCEPT !.critical_operation_in_progress = 0],
                        out.r,
                        <<"dialog:delete-branch",
                          CASE option = DELETE_LOCAL -> "delete:local"
                            [] option = DELETE_REMOTE -> "delete:remote"
                            [] option = DELETE_BOTH -> "delete:both"
                            [] OTHER -> "delete:cancel">> \o out.events)
     ELSE Returned("d", viewer, repo, <<>>)

\* "git branch -m"
rename_git_branch(r, old, new) ==
  [r EXCEPT !.branches = (@ \ {old}) \cup {new},
            !.current = IF @ = old THEN new ELSE @,
            !.log[new] = r.log[old], !.log[old] = 0,
            !.upstream[new] = r.upstream[old], !.upstream[old] = FALSE,
            !.ahead[new] = r.ahead[old], !.ahead[old] = 0,
            !.behind[new] = r.behind[old], !.behind[old] = 0]

\* 'r'
BranchListRename ==
  /\ Mode(NCURSES_MODE_BRANCH_LIST)
  /\ IF BranchSelected
     THEN LET old == BranchAt(viewer, viewer.selected_branch)
          IN \/ ReturnedC("r", viewer, repo, <<"dialog:rename-branch">>)
             \/ ReturnedC("r", viewer, repo,
                         <<"dialog:rename-branch", "git:branch-m">>)
             \/ /\ old \in repo.branches
                /\ \E new \in BranchNames \ repo.branches :
                     LET r == rename_git_branch(repo, old, new)
                         v1 == get_ncurses_git_branches(viewer, r)
                     IN ReturnedC("r",
                          [v1 EXCEPT !.selected_branch = FindBranch(v1, new)],
                          r, <<"dialog:rename-branch", "git:branch-m">>)
     ELSE Returned("r", viewer, repo, <<>>)

\* "git pull": merges the upstream of the checked-out branch
CanPull(r) ==
  /\ r.upstream[r.current]
  /\ r.log[r.current] + r.behind[r.current] <= MaxCommits

GitPull(r) ==
  [r EXCEPT !.log[r.current] = @ + r.behind[r.current],
            !.behind[r.current] = 0]

\* 'p'
BranchListPull ==
  /\ Mode(NCURSES_MODE_BRANCH_LIST)
  /\ IF BranchSelected
     THEN IF viewer.branches[viewer.selected_branch + 1].commits_behind > 0
          THEN LET v0 == [viewer EXCEPT
                            !.sync_status = SYNC_STATUS_PULLING_APPEARING,
                            !.animation_frame = 0,
                            !.text_char_count = 0,
                            !.pulling_branch_index = viewer.selected_branch,
                            !.branch_pull_status =
                               SYNC_STATUS_PULLING_VISIBLE,
                            !.branch_animation_frame = 0,
                            !.branch_text_char_count = 7]
               IN \/ \E fork_ok \in BOOLEAN, spin \in 0..MaxSpin :
                       ReturnedC("p",
                         [v0 EXCEPT
                            !.sync_status = SYNC_STATUS_IDLE,
                            !.pulling_branch_index = -1,
                            !.branch_pull_status = SYNC_STATUS_IDLE,
                            !.branch_animation_frame =
                               IF fork_ok THEN spin ELSE 0],
                         repo,
                         (IF fork_ok THEN <<"spawn:pull">> ELSE <<>>)
                            \o <<"popup">>)
                  \/ /\ CanPull(repo)
                     /\ \E lines \in ContentChoices :
                          LET r == GitPull(repo)
                              v1 == RefreshAfterBranchChange(
                                      [v0 EXCEPT
                                         !.branch_pull_status =
                                            SYNC_STATUS_PULLED_APPEARING,
                                         !.branch_animation_frame = 0,
                                         !.branch_text_char_count = 0],
                                      r, lines)
                          IN ReturnedC("p",
                               [v1 EXCEPT
                                  !.sync_status =
                                     SYNC_STATUS_PULLED_APPEARING,
                                  !.animation_frame = 0,
                                  !.text_char_count = 0],
                               r, <<"spawn:pull">>)
          ELSE ReturnedC("p", viewer, repo, <<"popup">>)
     ELSE Returned("p", viewer, repo, <<>>)

(***************************************************************************)
(* The rest of the main loop and the world around it.                      *)
(***************************************************************************)
\* getch() returned ERR: no key this frame
NoKey ==
  /\ pc = "input"
  /\ pc' = "update"
  /\ obs' = NoObs
  /\ UNCHANGED <<repo, viewer, children, sync_due, frame_no, edits, reader, history>>

\* a key no case of the current mode handles
UnboundKey ==
  /\ pc = "input"
  /\ Returned("other", viewer, repo, <<>>)

\* 30 seconds have passed since last_sync_time
ClockAdvance ==
  /\ pc = "update"
  /\ ~sync_due
  /\ sync_due' = TRUE
  /\ obs' = NoObs
  /\ UNCHANGED <<repo, viewer, children, pc, frame_no, edits, reader, history>>

\* "git fetch --all" finishes in the child; it may have found new commits
\* on the upstream of a branch
FetchChildExit ==
  /\ pc = "update"
  /\ \E pid \in Pids :
       /\ children[pid] = "running"
       /\ children' = [children EXCEPT ![pid] = "exited"]
  /\ \/ UNCHANGED repo
     \/ \E b \in repo.branches :
          /\ repo.upstream[b]
          /\ repo.behind[b] < MaxBehind
          /\ repo' = [repo EXCEPT !.behind[b] = @ + 1]
  /\ obs' = NoObs
  /\ UNCHANGED <<viewer, sync_due, pc, frame_no, edits, reader, history>>

\* the working tree changes outside the viewer
ExternalEdit ==
  /\ pc = "update"
  /\ edits < MaxEdits
  /\ \E fs \in SUBSET FileNames :
       /\ fs # repo.files
       /\ repo' = [repo EXCEPT !.files = fs]
  /\ edits' = edits + 1
  /\ obs' = NoObs
  /\ UNCHANGED <<viewer, children, sync_due, pc, frame_no, reader, history>>

\* one iteration of the main loop begins
Frame ==
  /\ frame_no < MaxFrames
  /\ update_sync_status
  /\ frame_no' = frame_no + 1
  /\ UNCHANGED <<edits, reader, history>>

Key ==
  \/ KeyQuit \/ Key1 \/ Key2 \/ Key3 \/ Key4 \/ Key5
  \/ FileListEsc \/ FileListUp \/ FileListDown \/ FileListSpace
  \/ FileListMarkAll \/ FileListStash \/ FileListCommit \/ FileListTab
  \/ FileListEnter
  \/ ViewEsc \/ ViewUp \/ ViewDown \/ ViewPageUp \/ ViewCtrlU \/ ViewCtrlD
  \/ ViewPageDown
  \/ CommitListEsc \/ CommitListUp \/ CommitListDown \/ CommitListEnter
  \/ CommitListPush \/ CommitListResetSoft \/ CommitListResetHard
  \/ CommitListAmend
  \/ StashListEsc \/ StashListUp \/ StashListDown \/ StashListEnter
  \/ StashListApply \/ StashListPop \/ StashListDrop
  \/ BranchListEsc \/ BranchListUp \/ BranchListDown \/ BranchListEnter
  \/ BranchListCheckout \/ BranchListNew \/ BranchListDelete
  \/ BranchListRename \/ BranchListPull
  \/ NoKey \/ UnboundKey

Environment == ClockAdvance \/ FetchChildExit \/ ExternalEdit

Next == Frame \/ Key \/ Environment

Spec == Init /\ [][Next]_vars

\* the viewer started in a repository of PullRepos
SpecPull == InitPull /\ [][Next]_vars

(***************************************************************************)
(* Scrolling.  A content of any shape is open in one of the four view      *)
(* modes and the keys of the view handler are pressed, any number of       *)
(* times in any order.                                                     *)
(***************************************************************************)
\* texts of up to MaxViewLines lines, each with content (TRUE) or blank
ViewTexts == UNION {[1..n -> BOOLEAN] : n \in 0..MaxViewLines}

\* the viewer after Enter on the first row of the list mode of view mode m
OpenView(r, m, lines) ==
  LET v == run_ncurses_diff_viewer(r, lines)
      w == CASE m = NCURSES_MODE_FILE_VIEW -> ReloadCurrentFile(v, lines)
             [] m = NCURSES_MODE_COMMIT_VIEW ->
                  load_commit_for_viewing(v, CommitAt(v, v.selected_commit),
                                          TRUE, lines)
             [] m = NCURSES_MODE_STASH_VIEW ->
                  load_stash_for_viewing(v, v.selected_stash, TRUE, lines)
             [] OTHER ->
                  parse_branch_commits_to_lines(LoadSelectedBranch(v, r), lines)
  IN [w EXCEPT !.current_mode = m]

InitView ==
  /\ repo \in {r \in InitRepos : r.ahead[1] = 0 /\ r.behind[1] = 0
                                  /\ r.ahead[2] = 0 /\ r.behind[2] = 0}
  /\ \E m \in ViewModes, lines \in ViewTexts : viewer = OpenView(repo, m, lines)
  /\ children = [p \in Pids |-> "none"]
  /\ sync_due = FALSE
  /\ pc = "update"
  /\ frame_no = 0
  /\ edits = 0
  /\ obs = NoObs
  /\ reader = NoReader
  /\ history = NoHistory

\* one iteration of the main loop begins; the iterations are not counted
ViewFrame ==
  /\ update_sync_status
  /\ UNCHANGED <<frame_no, edits, reader, history>>

NextView ==
  \/ ViewFrame
  \/ ViewEsc \/ ViewUp \/ ViewDown \/ ViewPageUp \/ ViewCtrlU \/ ViewCtrlD
  \/ ViewPageDown
  \/ NoKey

SpecView == InitView /\ [][NextView]_vars

(***************************************************************************)
(* Loading a new file.  The working tree holds untracked files whose text  *)
(* is a sequence of lines, each given by its length in bytes without the   *)
(* newline that ends it; Enter in the file list opens the first one.       *)
(***************************************************************************)
\* texts of up to MaxFileLines lines of one byte, one line at most being of
\* another length
NewFileTexts ==
  {[i \in 1..n |-> IF i = p THEN len ELSE 1] :
     n \in 0..MaxFileLines, p \in 1..MaxFileLines, len \in LineLengths}

\* the fgets loop of the new-file branch: the number of content lines stored
\* from byte off of line i on, line_count of them being stored already
RECURSIVE NewFileScan(_, _, _, _)
NewFileScan(text, i, off, line_count) ==
  IF i > Len(text) \/ line_count >= NewFileLineCap
        \/ line_count >= MAX_FULL_FILE_LINES
  THEN line_count
  ELSE LET remaining == text[i] + 1 - off
           got == Min(NewFileBuffer - 1, remaining)
       IN IF got = remaining
          THEN NewFileScan(text, i + 1, 0, line_count + 1)
          ELSE NewFileScan(text, i, off + got, line_count + 1)

\* load_full_file_with_diff on a file git does not track: every line stored
\* is "+" followed by what fgets returned, which is never blank
LoadNewFile(v, filename, text) ==
  load_full_file_with_diff(v, filename,
                           [i \in 1..NewFileScan(text, 1, 0, 0) |-> TRUE])

InitLoad ==
  /\ \E r \in InitRepos, text \in NewFileTexts :
       /\ r.ahead[1] = 0 /\ r.behind[1] = 0
       /\ r.ahead[2] = 0 /\ r.behind[2] = 0
       /\ repo = [files |-> r.files, stashes |-> r.stashes,
                  branches |-> r.branches, current |-> r.current,
                  log |-> r.log, upstream |-> r.upstream,
                  ahead |-> r.ahead, behind |-> r.behind,
                  untracked |-> text]
  /\ viewer = run_ncurses_diff_viewer(
                repo, [i \in 1..NewFileScan(repo.untracked, 1, 0, 0) |-> TRUE])
  /\ children = [p \in Pids |-> "none"]
  /\ sync_due = FALSE
  /\ pc = "input"
  /\ frame_no = 0
  /\ edits = 0
  /\ obs = NoObs
  /\ reader = NoReader
  /\ history = NoHistory

\* Enter in the file list, the selected file being untracked: the events are
\* the type tags of the lines stored
FileListEnterNew ==
  /\ Mode(NCURSES_MODE_FILE_LIST)
  /\ file_count(viewer) > 0
  /\ viewer.selected_file < file_count(viewer)
  /\ LET v == LoadNewFile(viewer, viewer.files[viewer.selected_file + 1].filename,
                          repo.untracked)
     IN Returned("ENTER",
          [v EXCEPT !.current_mode = NCURSES_MODE_FILE_VIEW], repo,
          [i \in 1..file_line_count(v) |-> "+"])

\* Escape in the file view
FileViewEsc ==
  /\ Mode(NCURSES_MODE_FILE_VIEW)
  /\ ViewEsc

NextLoad == FileListEnterNew \/ FileViewEsc \/ ViewFrame

SpecLoad == InitLoad /\ [][NextLoad]_vars

(***************************************************************************)
(* The line editor of the shell: read_key, update_suggestions and          *)
(* lsh_read_line.  A string is the sequence of its characters; offsets     *)
(* into a string count from 0 as in the code.  full_suggestion is only     *)
(* ever written, and what is printed is not modelled beyond the number of  *)
(* menu lines on the screen.                                               *)
(***************************************************************************)
\* the characters the keyboard sends in the model
Chars == {"h", "e", "H", " ", "/"}
NULL == <<"NULL">>
ReadKeys ==
  {"KEY_ENTER", "\n", "KEY_ESCAPE", "KEY_BACKSPACE", "127", "KEY_TAB",
   "KEY_UP", "KEY_DOWN", "KEY_LEFT"} \cup Chars

isprint(c) == c \in Chars

\* strncasecmp(s, t, strlen(t)) == 0
HasPrefixNoCase(s, t) ==
  LET tolower(ch) == IF ch = "H" THEN "h" ELSE ch
  IN /\ Len(t) <= Len(s)
     /\ \A i \in 1..Len(t) : tolower(s[i]) = tolower(t[i])

\* strrchr(s, ch) - s, or -1 for a null result
LastIndex(s, ch) ==
  IF \E i \in 1..Len(s) : s[i] = ch
  THEN (CHOOSE i \in 1..Len(s) :
          s[i] = ch /\ \A j \in (i + 1)..Len(s) : s[j] # ch) - 1
  ELSE -1

\* read_key: what it returns; read() failing with an errno other than
\* EAGAIN makes it return -1, EAGAIN makes it read again
read_key(stdin) == IF stdin = "error" THEN {"-1"} ELSE ReadKeys

\* builtin_str of builtins.c
builtin_str ==
  <<<<"c", "d">>, <<"h", "e", "l", "p">>, <<"e", "x", "i", "t">>, 
    <<"d", "i", "r">>, <<"c", "l", "e", "a", "r">>, 
    <<"m", "k", "d", "i", "r">>, <<"r", "m", "d", "i", "r">>, 
    <<"d", "e", "l">>, <<"t", "o", "u", "c", "h">>, <<"p", "w", "d">>, 
    <<"c", "a", "t">>, <<"h", "i", "s", "t", "o", "r", "y">>, 
    <<"c", "o", "p", "y">>, <<"m", "o", "v", "e">>, 
    <<"p", "a", "s", "t", "e">>, <<"p", "s">>, <<"n", "e", "w", "s">>, 
    <<"a", "l", "i", "a", "s">>, <<"u", "n", "a", "l", "i", "a", "s">>, 
    <<"a", "l", "i", "a", "s", "e", "s">>, 
    <<"b", "o", "o", "k", "m", "a", "r", "k">>, 
    <<"b", "o", "o", "k", "m", "a", "r", "k", "s">>, 
    <<"g", "o", "t", "o">>, 
    <<"u", "n", "b", "o", "o", "k", "m", "a", "r", "k">>, 
    <<"f", "o", "c", "u", "s", "_", "t", "i", "m", "e", "r">>, 
    <<"w", "e", "a", "t", "h", "e", "r">>, <<"g", "r", "e", "p">>, 
    <<"g", "r", "e", "p", "-", "t", "e", "x", "t">>, 
    <<"r", "i", "p", "g", "r", "e", "p">>, <<"f", "z", "f">>, 
    <<"c", "l", "i", "p">>, <<"e", "c", "h", "o">>, 
    <<"t", "h", "e", "m", "e">>, <<"l", "o", "c">>, 
    <<"g", "i", "t", "_", "s", "t", "a", "t", "u", "s">>, <<"g", "g">>>>

\* the alias names get_alias_names can hand back
AliasNames == {<<>>, <<<<"h", "e", "y">>>>}

\* the history entries get_previous_history_entry and
\* get_next_history_entry can hand back
HistoryLines == {<<"h", "e">>, <<"h", " ", "e">>}

\* the entries of the directories opendir opens, in readdir order; every
\* other path is not a directory
readdir(dir_path) ==
  CASE dir_path = <<".">> ->
         <<<<".">>, <<".", ".">>, <<"h", "e">>, <<"h", "i">>>>
    [] dir_path = <<"h", "e">> ->
         <<<<"h", "a">>, <<".">>, <<".", ".">>>>
    [] dir_path = <<"/">> ->
         <<<<".">>, <<".", ".">>, <<"e", "t", "c">>>>
    \* a file system need not hand back an entry for ".."
    [] dir_path = <<"/", "e", "t", "c">> -> <<<<".">>>>
    [] OTHER -> <<>>

\* stat(check_path) == 0 && S_ISDIR, check_path being dir_path/d_name
S_ISDIR(dir_path, d_name) ==
  \/ d_name \in {<<".">>, <<".", ".">>}
  \/ dir_path = <<".">> /\ d_name = <<"h", "e">>
  \/ dir_path = <<"/">> /\ d_name = <<"e", "t", "c">>

\* the file and directory suggestions for the argument prefix
FileSuggestions(prefix) ==
  LET last_slash == LastIndex(prefix, "/")
      dir_path == IF last_slash < 0 THEN <<".">>
                  ELSE IF last_slash = 0 THEN <<"/">>
                  ELSE SubSeq(prefix, 1, last_slash)
      name_prefix == IF last_slash < 0 THEN prefix
                     ELSE SubSeq(prefix, last_slash + 2, Len(prefix))
      Matches(d_name) ==
        /\ ~(name_prefix # <<>> /\ d_name \in {<<".">>, <<".", ".">>})
        /\ HasPrefixNoCase(d_name, name_prefix)
      found == SelectSeq(readdir(dir_path), Matches)
  IN [i \in 1..Len(found) |->
        IF S_ISDIR(dir_path, found[i]) THEN Append(found[i], "/")
        ELSE found[i]]

\* CommandSuggestions with the aliases in front
CommandSuggestionsAliasesFirst(buffer, aliases) ==
  LET Matches(name) == HasPrefixNoCase(name, buffer)
  IN SelectSeq(aliases, Matches) \o SelectSeq(builtin_str, Matches)

\* the command suggestions: builtins first, then aliases
CommandSuggestions(buffer, aliases) ==
  LET Matches(name) == HasPrefixNoCase(name, buffer)
  IN SelectSeq(builtin_str, Matches) \o SelectSeq(aliases, Matches)

\* update_suggestions without the test for "./"
UpdateSuggestionsShowDotSlash(rd) ==
  LET buffer == rd.buffer
      last_space == LastIndex(buffer, " ")
      \* nothing but the end of the string follows the last space, so
      \* "Skip additional spaces" skips none
      start == IF last_space >= 0 THEN last_space + 1 ELSE 0
      list == IF last_space < 0
              THEN CommandSuggestions(buffer, rd.aliases)
              ELSE FileSuggestions(SubSeq(buffer, start + 1, Len(buffer)))
      shown == Len(list) > 0
  IN [rd EXCEPT !.suggestions = list,
                !.suggestion_count = Len(list),
                !.prefix_start = start,
                !.has_suggestion = IF shown THEN 1 ELSE 0,
                !.suggestion_index = IF shown THEN 0 ELSE @]

\* update_suggestions leaving the selection where it was
UpdateSuggestionsKeepIndex(rd) ==
  LET buffer == rd.buffer
      last_space == LastIndex(buffer, " ")
      \* nothing but the end of the string follows the last space, so
      \* "Skip additional spaces" skips none
      start == IF last_space >= 0 THEN last_space + 1 ELSE 0
      list == IF last_space < 0
              THEN CommandSuggestions(buffer, rd.aliases)
              ELSE FileSuggestions(SubSeq(buffer, start + 1, Len(buffer)))
      shown == Len(list) > 0 /\ list[1] # <<".", "/">>
  IN [rd EXCEPT !.suggestions = list,
                !.suggestion_count = Len(list),
                !.prefix_start = start,
                !.has_suggestion = IF shown THEN 1 ELSE 0]

update_suggestions(rd) ==
  LET buffer == rd.buffer
      last_space == LastIndex(buffer, " ")
      \* nothing but the end of the string follows the last space, so
      \* "Skip additional spaces" skips none
      start == IF last_space >= 0 THEN last_space + 1 ELSE 0
      list == IF last_space < 0
              THEN CommandSuggestions(buffer, rd.aliases)
              ELSE FileSuggestions(SubSeq(buffer, start + 1, Len(buffer)))
      shown == Len(list) > 0 /\ list[1] # <<".", "/">>
  IN [rd EXCEPT !.suggestions = list,
                !.suggestion_count = Len(list),
                !.prefix_start = start,
                !.has_suggestion = IF shown THEN 1 ELSE 0,
                !.suggestion_index = IF shown THEN 0 ELSE @]

\* the menu lines on the screen are wiped; highlighted is the number of the
\* menu line drawn in the highlight colour, -1 when there is none
clear_menu(rd) == [rd EXCEPT !.menu_start_line = 0, !.highlighted = -1]

\* the first show_count candidates are drawn, one per line, the one at
\* suggestion_index in the highlight colour
display_menu(rd) ==
  IF rd.has_suggestion = 0 \/ rd.suggestion_count = 0 THEN rd
  ELSE LET show_count == Min(rd.suggestion_count, 10)
       IN [clear_menu(rd) EXCEPT
             !.menu_start_line = show_count,
             !.highlighted = IF rd.suggestion_index < show_count
                             THEN rd.suggestion_index ELSE -1]

refresh_display(rd) ==
  IF rd.menu_mode = 1 THEN display_menu(clear_menu(rd)) ELSE clear_menu(rd)

\* "Clean up suggestions" after the loop and "Clear suggestions since we
\* have an empty line"
FreeSuggestions(rd) ==
  [rd EXCEPT !.suggestions = <<>>, !.suggestion_count = 0,
             !.has_suggestion = 0]

\* the buffer becomes text, the cursor goes to its end
ReplaceBuffer(rd, text) ==
  [rd EXCEPT !.buffer = text, !.position = Len(text)]

\* AcceptSuggestion dropping the directory part that was typed
AcceptSuggestionNoDir(rd) ==
  LET selected == rd.suggestions[rd.suggestion_index + 1]
      path_part == SubSeq(rd.buffer, rd.prefix_start + 1, rd.position)
      last_slash == LastIndex(path_part, "/")
      dir_part == <<>>
  IN ReplaceBuffer(rd,
       IF rd.prefix_start > 0
       THEN SubSeq(rd.buffer, 1, rd.prefix_start) \o dir_part \o selected
       ELSE selected)

\* "Update buffer with selected suggestion": the text in front of
\* prefix_start, the directory part of the argument typed so far, the
\* selected suggestion
AcceptSuggestion(rd) ==
  LET selected == rd.suggestions[rd.suggestion_index + 1]
      path_part == SubSeq(rd.buffer, rd.prefix_start + 1, rd.position)
      last_slash == LastIndex(path_part, "/")
      dir_part == IF last_slash >= 0 THEN SubSeq(path_part, 1, last_slash + 1)
                  ELSE <<>>
  IN ReplaceBuffer(rd,
       IF rd.prefix_start > 0
       THEN SubSeq(rd.buffer, 1, rd.prefix_start) \o dir_part \o selected
       ELSE selected)

\* Tab, Up and Down in menu mode: the selection moves d places round the
\* candidate list and the menu is drawn again
CycleSelectionNoWrap(rd, d) ==
  IF rd.suggestion_count > 0
  THEN refresh_display(
         [rd EXCEPT !.suggestion_index =
                       IF @ + d < rd.suggestion_count THEN @ + d ELSE @])
  ELSE rd

CycleSelection(rd, d) ==
  IF rd.suggestion_count > 0
  THEN refresh_display(
         [rd EXCEPT !.suggestion_index = (@ + d) % rd.suggestion_count])
  ELSE rd

\* Enter: in menu mode the selected suggestion goes into the buffer and
\* the menu closes; otherwise the loop is left, the suggestions are freed
\* and the buffer is returned
EnterKeyAlwaysReturns(rd) ==
  [FreeSuggestions(rd) EXCEPT !.state = "returned"]

EnterKey(rd) ==
  IF rd.menu_mode = 1
  THEN IF rd.has_suggestion = 1 /\ rd.suggestion_count > 0
       THEN update_suggestions(
              [clear_menu(AcceptSuggestion(rd)) EXCEPT !.menu_mode = 0])
       ELSE rd
  ELSE [FreeSuggestions(rd) EXCEPT !.state = "returned"]

\* Escape: closes the menu when it is open
EscapeKeyCancelsLine(rd) ==
  IF rd.menu_mode = 1 THEN clear_menu([rd EXCEPT !.menu_mode = 0])
  ELSE FreeSuggestions(ReplaceBuffer(rd, <<>>))

EscapeKey(rd) ==
  IF rd.menu_mode = 1 THEN clear_menu([rd EXCEPT !.menu_mode = 0]) ELSE rd

\* one pass through the body of "while (1)" in lsh_read_line with the key
\* c; h is what the history lookup of KEY_UP or KEY_DOWN hands back
ReadLineBody(rd, c, h) ==
  LET menu == rd.menu_mode = 1 IN
  CASE c \in {"KEY_ENTER", "\n"} -> EnterKey(rd)
    [] c = "KEY_ESCAPE" -> EscapeKey(rd)
    [] c \in {"KEY_BACKSPACE", "127"} ->
         IF rd.position > 0
         THEN update_suggestions(
                [(IF menu THEN clear_menu(rd) ELSE rd) EXCEPT
                   !.position = @ - 1,
                   !.buffer = SubSeq(@, 1, rd.position - 1),
                   !.menu_mode = 0])
         ELSE rd
    [] c = "KEY_TAB" ->
         IF menu THEN CycleSelection(rd, 1)
         ELSE IF rd.has_suggestion = 1 /\ rd.suggestion_count = 1
         THEN update_suggestions(AcceptSuggestion(rd))
         ELSE IF rd.has_suggestion = 1 /\ rd.suggestion_count > 1
         THEN refresh_display(
                [rd EXCEPT !.menu_mode = 1, !.suggestion_index = 0])
         ELSE rd
    [] c = "KEY_UP" ->
         IF menu THEN CycleSelection(rd, rd.suggestion_count - 1)
         ELSE IF h # NULL THEN update_suggestions(ReplaceBuffer(rd, h))
         ELSE rd
    [] c = "KEY_DOWN" ->
         IF menu THEN CycleSelection(rd, 1)
         ELSE IF h # NULL THEN update_suggestions(ReplaceBuffer(rd, h))
         ELSE FreeSuggestions(ReplaceBuffer(rd, <<>>))
    [] isprint(c) ->
         update_suggestions(
           [(IF menu THEN clear_menu(rd) ELSE rd) EXCEPT
              !.buffer = Append(SubSeq(@, 1, rd.position), c),
              !.position = @ + 1,
              !.menu_mode = 0])
    [] OTHER -> rd

ReaderStep(rd) ==
  /\ reader' = rd
  /\ UNCHANGED <<repo, viewer, children, sync_due, pc, frame_no, edits, obs,
                 history>>

\* lsh_read_line is called: the prompt is shown and the buffer is empty
ReadLineCall ==
  /\ reader.state \in {"idle", "returned"}
  /\ \E aliases \in AliasNames :
       ReaderStep(update_suggestions(
         [reader EXCEPT !.state = "editing", !.c = "", !.buffer = <<>>,
                        !.position = 0, !.menu_mode = 0,
                        !.menu_start_line = 0, !.aliases = aliases]))

\* "c = read_key();" and the branch of the loop body that takes c
ReadLineKey ==
  /\ reader.state = "editing"
  /\ \E c \in read_key(reader.stdin), h \in HistoryLines \cup {NULL} :
       /\ isprint(c) => reader.position < MaxInput
       /\ ReaderStep([ReadLineBody(reader, c, h) EXCEPT !.c = c])

\* the terminal goes away, or a signal interrupts read()
StdinFails ==
  /\ reader.state = "editing"
  /\ reader.stdin = "ok"
  /\ ReaderStep([reader EXCEPT !.stdin = "error"])

StdinRecovers ==
  /\ reader.stdin = "error"
  /\ ReaderStep([reader EXCEPT !.stdin = "ok"])

NextLine == ReadLineCall \/ ReadLineKey \/ StdinFails \/ StdinRecovers

SpecLine == Init /\ [][NextLine]_vars

(***************************************************************************)
(* read_key at the level of bytes.  The terminal sends each key pressed as *)
(* a burst of bytes ("ESC" is byte 27, "CR" byte 13); the bytes not yet     *)
(* read are pending in stdin.  A burst arrives whole, and the next key is  *)
(* pressed more than the 50 ms of the select() timeout later, so select()  *)
(* reports a byte exactly when one of the burst is left.  The reader       *)
(* record holds the pending bytes, the value read_key returned last, the   *)
(* number of keys pressed and the literal characters lsh_read_line put     *)
(* into its buffer.                                                        *)
(***************************************************************************)
\* what the terminal sends for Up, Down, Right, Left, Shift+Enter in its two
\* forms, Escape, Enter, Delete and two letters
KeyBursts ==
  {<<"ESC", "[", "A">>, <<"ESC", "[", "B">>, <<"ESC", "[", "C">>,
   <<"ESC", "[", "D">>,
   <<"ESC", "[", "1", "3", ";", "2", "~">>, <<"ESC", "O", "2", "M">>,
   <<"ESC">>, <<"CR">>, <<"ESC", "[", "3", "~">>, <<"h">>, <<"~">>}

\* the bytes of the bursts that isprint() accepts
PrintableBytes ==
  {"[", "A", "B", "C", "D", "O", "M", "1", "2", "3", ";", "~", "h"}

SpecialKeys ==
  {"KEY_UP", "KEY_DOWN", "KEY_RIGHT", "KEY_LEFT", "LOCAL_KEY_SHIFT_ENTER"}

\* the while loop of read_key after the byte ESC: seq holds the bytes read
\* so far, rest the bytes pending; the value is the key and the bytes left
RECURSIVE EscapeSequence(_, _)
EscapeSequence(seq, rest) ==
  IF Len(seq) >= 5 \/ rest = <<>>
  THEN [key |-> "KEY_ESCAPE", rest |-> rest]
  ELSE LET s == Append(seq, Head(rest))
           left == Tail(rest)
           i == Len(s)
       IN IF i >= 2 /\ s[1] = "[" /\ s[2] \in {"A", "B", "C", "D"}
          THEN [key |-> CASE s[2] = "A" -> "KEY_UP"
                          [] s[2] = "B" -> "KEY_DOWN"
                          [] s[2] = "C" -> "KEY_RIGHT"
                          [] OTHER -> "KEY_LEFT",
                rest |-> left]
          ELSE IF i >= 3 /\ s[1] = "[" /\ s[2] = "1" /\ s[3] = "3"
                  /\ i >= 5 /\ s[4] = ";" /\ s[5] = "2"
          THEN [key |-> "LOCAL_KEY_SHIFT_ENTER", rest |-> left]
          ELSE IF i >= 3 /\ s[1] = "O" /\ s[2] = "2" /\ s[3] = "M"
          THEN [key |-> "LOCAL_KEY_SHIFT_ENTER", rest |-> left]
          ELSE EscapeSequence(s, left)

\* read_key on the pending bytes, of which there is one at least
ReadKeyBytes(pending) ==
  LET c == Head(pending)
  IN IF c = "CR" THEN [key |-> "KEY_ENTER", rest |-> Tail(pending)]
     ELSE IF c = "ESC" THEN EscapeSequence(<<>>, Tail(pending))
     ELSE [key |-> c, rest |-> Tail(pending)]

InitKeys ==
  /\ repo \in {r \in InitRepos : r.ahead[1] = 0 /\ r.behind[1] = 0
                                  /\ r.ahead[2] = 0 /\ r.behind[2] = 0}
  /\ viewer = init_ncurses_diff_viewer
  /\ children = [p \in Pids |-> "none"]
  /\ sync_due = FALSE
  /\ pc = "stopped"
  /\ frame_no = 0
  /\ edits = 0
  /\ obs = NoObs
  /\ reader = [pending |-> <<>>, key |-> "", pressed |-> 0, buffer |-> <<>>]
  /\ history = NoHistory

\* a key is pressed while no byte is pending
KeyPressed ==
  /\ reader.pending = <<>>
  /\ reader.pressed < MaxPresses
  /\ \E burst \in KeyBursts :
       reader' = [reader EXCEPT !.pending = burst, !.pressed = @ + 1]
  /\ UNCHANGED <<repo, viewer, children, sync_due, pc, frame_no, edits, obs,
                 history>>

\* "c = read_key();" in lsh_read_line and the branch "isprint(c)", which
\* appends c to the buffer
ReadKeyCall ==
  /\ reader.pending # <<>>
  /\ LET got == ReadKeyBytes(reader.pending)
     IN reader' = [reader EXCEPT
                     !.pending = got.rest,
                     !.key = got.key,
                     !.buffer = IF got.key \in PrintableBytes
                                THEN Append(@, got.key) ELSE @]
  /\ UNCHANGED <<repo, viewer, children, sync_due, pc, frame_no, edits, obs,
                 history>>

NextKeys == KeyPressed \/ ReadKeyCall

SpecKeys == InitKeys /\ [][NextKeys]_vars

(***************************************************************************)
(* The main loop watched over a whole status animation.  The keys that     *)
(* start a push or a pull and the 30 s clock come in the first             *)
(* MaxAnimFrames iterations, which are those of Spec; after them the loop  *)
(* runs on for ever with the clock not due and getch() returning ERR,      *)
(* while a fetch child still running may exit at any time.                 *)
(***************************************************************************)
\* the repository the animation is watched in: the current branch has an
\* upstream and is behind it, so that a push and a pull both go through
InitAnim ==
  /\ Init
  /\ repo.ahead[1] = 0
  /\ repo.behind[1] = 1

AnimFrame ==
  /\ frame_no < MaxAnimFrames
  /\ update_sync_status
  /\ frame_no' = frame_no + 1
  /\ UNCHANGED <<edits, reader, history>>

\* the 30 seconds run out while a counted iteration is still to come
AnimClockAdvance ==
  /\ frame_no < MaxAnimFrames
  /\ viewer.fetch_in_progress = 0
  /\ ClockAdvance

\* update_sync_status with the clock not due, then getch() returning ERR
QuietIteration ==
  /\ pc = "update"
  /\ frame_no = MaxAnimFrames
  /\ ~sync_due
  /\ CheckAndAnimate
  /\ obs' = NoObs
  /\ UNCHANGED <<repo, sync_due, pc, frame_no, edits, reader, history>>

NextAnim ==
  \/ AnimFrame \/ QuietIteration
  \/ Key3 \/ Key4 \/ CommitListPush \/ BranchListPull \/ NoKey
  \/ AnimClockAdvance \/ FetchChildExit

\* the loop of run_ncurses_diff_viewer never blocks: getch() is non-blocking
SpecAnim ==
  /\ InitAnim
  /\ [][NextAnim]_vars
  /\ WF_vars(AnimFrame)
  /\ WF_vars(QuietIteration)
  /\ WF_vars(NoKey)

(***************************************************************************)
(* The background fetch over a run that never ends.  The loop never blocks *)
(* (getch() is non-blocking), 30 seconds pass again and again, a fetch     *)
(* child that runs exits, and fork() succeeds when it is tried often       *)
(* enough.  The keys are those of the branch list.                         *)
(***************************************************************************)
FetchKeys ==
  \/ Key3 \/ BranchListUp \/ BranchListDown \/ BranchListDelete
  \/ BranchListEsc \/ NoKey

\* update_sync_status forks the fetch child
FetchForked ==
  /\ ViewFrame
  /\ obs'.events = <<"spawn:fetch">>

NextFetch == ViewFrame \/ FetchKeys \/ ClockAdvance \/ FetchChildExit

SpecFetch ==
  /\ InitAnim
  /\ [][NextFetch]_vars
  /\ WF_vars(ViewFrame)
  /\ WF_vars(FetchKeys)
  /\ SF_vars(ClockAdvance)
  /\ SF_vars(FetchChildExit)
  /\ SF_vars(FetchForked)

(***************************************************************************)
(* The history ring of builtins.c: command_history, history_count,         *)
(* history_index.                                                          *)
(***************************************************************************)
\* command lines handed to lsh_add_to_history; "" is the empty line
Commands == {"", "ls", "cd", "pwd", "gg"}

\* what strcmp can do with command_history[-1].command, the word in front
\* of the array: the read is out of bounds, so the word may point at a
\* string equal to the command, at another string, or nowhere
OutOfBounds == {"equal", "different", "crash"}

\* strcmp(command_history[history_index - 1].command, command) == 0
SameAsLast(h, command, oob) ==
  IF h.history_index - 1 >= 0
  THEN h.command_history[h.history_index - 1].command = command
  ELSE oob = "equal"

\* lsh_add_to_history; now is what time(NULL) returns
lsh_add_to_history(h, command, now, oob) ==
  IF command = "" THEN h
  ELSE IF h.history_count > 0 /\ h.history_index - 1 < 0 /\ oob = "crash"
  THEN [h EXCEPT !.crashed = TRUE]
  ELSE IF h.history_count > 0 /\ SameAsLast(h, command, oob) THEN h
  ELSE [h EXCEPT
          !.history_count = IF @ = HISTORY_SIZE THEN @ ELSE @ + 1,
          !.command_history[h.history_index] =
             [command |-> command, timestamp |-> now],
          !.history_index = (@ + 1) % HISTORY_SIZE]

\* lsh_history: the entries it prints, in the order it prints them
lsh_history(h) ==
  [i \in 1..h.history_count |->
     h.command_history[(h.history_index - h.history_count + (i - 1)
                          + HISTORY_SIZE) % HISTORY_SIZE]]

\* a command line is added to the history; the clock is the number of the
\* call
AddToHistory ==
  /\ ~history.crashed
  /\ Len(history.calls) < MaxAdds
  /\ \E command \in Commands, oob \in OutOfBounds :
       history' = [lsh_add_to_history(history, command,
                                      Len(history.calls) + 1, oob)
                     EXCEPT !.calls = Append(@, command)]
  /\ UNCHANGED <<repo, viewer, children, sync_due, pc, frame_no, edits, obs,
                 reader>>

\* the "history" builtin prints the list
ShowHistory ==
  /\ ~history.crashed
  /\ history.history_count > 0
  /\ obs' = [NoObs EXCEPT !.key = "history",
                          !.events = [i \in 1..history.history_count |->
                                        lsh_history(history)[i].command]]
  /\ UNCHANGED <<repo, viewer, children, sync_due, pc, frame_no, edits,
                 reader, history>>

NextHistory == AddToHistory \/ ShowHistory

SpecHistory == Init /\ [][NextHistory]_vars

TypeOK ==
  /\ RepoOK(repo)
  /\ pc \in {"update", "input", "stopped"}
  /\ frame_no \in 0..Max(MaxFrames, MaxAnimFrames)
  /\ viewer.current_mode \in 0..7
  /\ viewer.sync_status \in 0..18

(***************************************************************************)
(* Properties.                                                             *)
(***************************************************************************)
Range(seq) == {seq[i] : i \in 1..Len(seq)}

\* the step is a key handler running to its return
KeyStep == pc = "input" /\ pc' # "input"

SelectionOK(sel, count) == IF count = 0 THEN sel = 0 ELSE sel >= 0 /\ sel < count

\* C1: every selection index is below the count of its list, or 0 when the
\* list is empty, in every state the viewer reaches
C1_SelectionsInRange ==
  /\ SelectionOK(viewer.selected_file, file_count(viewer))
  /\ SelectionOK(viewer.selected_commit, commit_count(viewer))
  /\ SelectionOK(viewer.selected_stash, viewer.stash_count)
  /\ SelectionOK(viewer.selected_branch, branch_count(viewer))

LiveFetchChildren == {p \in Pids : children[p] # "none"}

\* C2: a fetch child is forked only in a frame that found no critical
\* operation in progress and no fetch running, and there is never more
\* than one fetch child
C2_FetchStartGuarded ==
  /\ [](Cardinality(LiveFetchChildren) <= 1)
  /\ [][(\E p \in Pids : children[p] # "running" /\ children'[p] = "running")
          => /\ viewer.critical_operation_in_progress = 0
             /\ viewer.fetch_in_progress = 0
             /\ LiveFetchChildren = {}]_vars

\* a frame has just forked the fetch child, the only one alive
C2_Witness ==
  /\ obs.key = "frame"
  /\ obs.events = <<"spawn:fetch">>
  /\ Cardinality(LiveFetchChildren) = 1
  /\ viewer.fetch_in_progress = 1

\* C3: when a key handler has returned to the main loop the
\* critical-operation flag is 0, whatever the key and the outcome
C3_CriticalClearedOnReturn ==
  (obs.key \notin {"", "frame"}) =>
     viewer.critical_operation_in_progress = 0

Diverged(r) ==
  r.upstream[r.current] /\ r.ahead[r.current] > 0 /\ r.behind[r.current] > 0

PushSpawns == {"spawn:push", "spawn:push-force"}

\* C4: a push is spawned as a force push exactly when the branch is
\* diverged (ahead > 0 and behind > 0) and the user confirmed the
\* divergence dialog; every other spawned push is a normal push
C4_ForcePushOnlyWhenConfirmed ==
  [][KeyStep =>
       /\ ("spawn:push-force" \in Range(obs'.events))
            => (Diverged(repo) /\ obs'.typed = <<"y">>
                /\ "dialog:diverged" \in Range(obs'.events))
       /\ ("spawn:push" \in Range(obs'.events)) => ~Diverged(repo)]_vars

\* a confirmed force push has just been spawned
C4_Witness ==
  /\ obs.key = "P"
  /\ obs.events = <<"dialog:diverged", "spawn:push-force">>
  /\ obs.typed = <<"y">>

\* position of the first of the events es in the sequence seq, 0 if none
FirstIndex(seq, es) ==
  IF \E i \in 1..Len(seq) : seq[i] \in es
  THEN CHOOSE i \in 1..Len(seq) :
         seq[i] \in es /\ \A j \in 1..(i - 1) : seq[j] \notin es
  ELSE 0

\* C5: 'P' in the commit list on a diverged branch: a push is spawned only
\* after the divergence dialog was shown; when the user declines, no push
\* is spawned, no is_pushed flag changes and the status is Idle
C5_DivergedPushAsksFirst ==
  [][(KeyStep /\ obs'.key = "P" /\ Diverged(repo)
        /\ viewer.current_mode = NCURSES_MODE_COMMIT_LIST)
       => /\ (Range(obs'.events) \cap PushSpawns # {})
               => /\ FirstIndex(obs'.events, {"dialog:diverged"}) > 0
                  /\ FirstIndex(obs'.events, {"dialog:diverged"})
                       < FirstIndex(obs'.events, PushSpawns)
          /\ (obs'.typed # <<>> /\ obs'.typed # <<"y">>)
               => /\ Range(obs'.events) \cap PushSpawns = {}
                  /\ viewer'.commits = viewer.commits
                  /\ viewer'.sync_status = SYNC_STATUS_IDLE
                  /\ repo' = repo]_vars

\* the user has just declined the divergence dialog
C5_Witness ==
  /\ obs.key = "P"
  /\ obs.events = <<"dialog:diverged">>
  /\ obs.typed = <<"n">>
  /\ viewer.sync_status = SYNC_STATUS_IDLE
  /\ \E i \in 1..commit_count(viewer) : viewer.commits[i].is_pushed = 0

TypedYes(typed) ==
  /\ Len(typed) = 3
  /\ typed[1] \in {"y", "Y"} /\ typed[2] = "e" /\ typed[3] = "s"

\* lists, selections and content of the viewer
Panels(v) ==
  <<v.files, v.commits, v.stash_count, v.branches, v.selected_file,
    v.selected_commit, v.selected_stash, v.selected_branch, v.file_lines,
    v.content, v.current_mode>>

\* C6: "git reset --hard" runs only when the selected commit is index 0 and
\* the user typed "yes" and Enter in the dialog; a declined or cancelled
\* dialog changes no list, no selection and nothing in the repository
C6_HardResetNeedsYes ==
  [][KeyStep =>
       /\ ("git:reset-hard" \in Range(obs'.events))
            => /\ viewer.selected_commit = 0
               /\ commit_count(viewer) > 0
               /\ viewer.current_mode = NCURSES_MODE_COMMIT_LIST
               /\ TypedYes(obs'.typed)
               /\ FirstIndex(obs'.events, {"dialog:reset"})
                    < FirstIndex(obs'.events, {"git:reset-hard"})
       /\ (obs'.key = "R" /\ "git:reset-hard" \notin Range(obs'.events))
            => /\ Panels(viewer') = Panels(viewer)
               /\ repo' = repo
               /\ "popup" \notin Range(obs'.events)]_vars

\* a hard reset has just removed the newest commit
C6_Witness ==
  /\ obs.key = "R"
  /\ "git:reset-hard" \in Range(obs.events)
  /\ TypedYes(obs.typed)
  /\ commit_count(viewer) = 1

\* the reset dialog has just been cancelled
C6_WitnessDeclined ==
  /\ obs.key = "R"
  /\ obs.events = <<"dialog:reset">>

FetchCompletes ==
  /\ obs'.key = "frame"
  /\ viewer.fetch_in_progress = 1
  /\ viewer'.fetch_in_progress = 0
  /\ viewer'.sync_status = SYNC_STATUS_SYNCED_APPEARING

\* C8: the refresh done when the background fetch completes leaves the
\* scroll offset, the cursor line and each selection as they were whenever
\* the old value is still an index into the refreshed data
C8_FetchRefreshPreservesPosition ==
  [][FetchCompletes =>
       /\ (viewer.selected_file < file_count(viewer'))
            => viewer'.selected_file = viewer.selected_file
       /\ (viewer.selected_commit < commit_count(viewer'))
            => viewer'.selected_commit = viewer.selected_commit
       /\ (viewer.selected_branch < branch_count(viewer'))
            => viewer'.selected_branch = viewer.selected_branch
       /\ (viewer.selected_stash < viewer'.stash_count)
            => viewer'.selected_stash = viewer.selected_stash
       /\ (viewer.file_cursor_line < file_line_count(viewer'))
            => viewer'.file_cursor_line = viewer.file_cursor_line
       /\ (viewer.file_scroll_offset < file_line_count(viewer'))
            => viewer'.file_scroll_offset = viewer.file_scroll_offset]_vars

\* a fetch has just completed while a file was open, scrolled down, with
\* the cursor below the first line
C8_Witness ==
  /\ obs.key = "frame"
  /\ viewer.sync_status = SYNC_STATUS_SYNCED_APPEARING
  /\ viewer.animation_frame = 1
  /\ viewer.current_mode = NCURSES_MODE_FILE_VIEW
  /\ viewer.content.kind = "file"
  /\ viewer.file_scroll_offset > 0
  /\ viewer.file_cursor_line > 0

ListedFiles(v) == {v.files[i].filename : i \in 1..file_count(v)}

\* the content panel does not hold the lines of a file that is not listed
OpenFileListed(v) ==
  (v.content.kind = "file" /\ file_line_count(v) > 0)
     => v.content.id \in ListedFiles(v)

ListChangingOps == {"git:commit", "git:stash-push", "git:checkout",
                    "git:branch-D"}

\* C9: after a commit, stash, checkout or branch delete that went through,
\* the content panel no longer holds the lines of a file that is not in
\* the changed-files list
C9_ContentClearedWhenFileGone ==
  [][(KeyStep /\ repo' # repo
        /\ Range(obs'.events) \cap ListChangingOps # {})
       => OpenFileListed(viewer')]_vars

\* C7: once read_key has returned -1 (a read error other than would-block)
\* the line editor has stopped editing: lsh_read_line has returned
C7_ReadErrorEndsEditing ==
  reader.c = "-1" => reader.state = "returned"

AllIdle ==
  /\ viewer.sync_status = SYNC_STATUS_IDLE
  /\ viewer.branch_push_status = SYNC_STATUS_IDLE
  /\ viewer.branch_pull_status = SYNC_STATUS_IDLE

\* C10: once no fetch, push or pull is started any more and the loop keeps
\* running, the status bar and the branch row reach Idle and stay Idle
C10_StatusSettlesAtIdle == <>[]AllIdle

\* the last frame of a pull's animation before Idle, in the iterations
\* without keys: the status bar is Idle already, one character of
\* "Pulled!" is left in the branch row, and the row still holds the
\* "Pushed!" of a push
C10_Witness ==
  /\ frame_no = MaxAnimFrames
  /\ viewer.sync_status = SYNC_STATUS_IDLE
  /\ viewer.branch_pull_status = SYNC_STATUS_PULLED_DISAPPEARING
  /\ viewer.branch_text_char_count = 1
  /\ viewer.branch_push_status = SYNC_STATUS_PUSHED_VISIBLE

\* update_sync_status called start_background_fetch and fork() failed
ForkFails ==
  /\ obs'.key = "frame"
  /\ sync_due /\ ~sync_due'
  /\ viewer'.fetch_pid = -1

\* check_background_fetch got -1 from waitpid
WaitFails ==
  /\ obs'.key = "frame"
  /\ viewer.fetch_in_progress = 1
  /\ viewer'.fetch_in_progress = 0
  /\ ~FetchCompletes

\* C11: after a failed fork of the fetch child, or an error of the wait on
\* it, no fetch is in progress, the sync status is Idle and no popup was
\* shown
C11_FetchFailureEndsIdle ==
  [][(ForkFails \/ WaitFails) =>
       /\ viewer'.fetch_in_progress = 0
       /\ viewer'.sync_status = SYNC_STATUS_IDLE
       /\ "popup" \notin Range(obs'.events)]_vars

\* C11, the wait error alone
C11_WaitErrorEndsIdle ==
  [][WaitFails =>
       /\ viewer'.fetch_in_progress = 0
       /\ viewer'.sync_status = SYNC_STATUS_IDLE
       /\ "popup" \notin Range(obs'.events)]_vars

\* the ring as lsh_history and the duplicate test see it
Ring(h) == <<h.command_history, h.history_count, h.history_index>>

\* lsh_add_to_history is called with the command of the call before it
RepeatedAdd ==
  /\ Len(history.calls) > 0
  /\ Len(history'.calls) = Len(history.calls) + 1
  /\ history'.calls[Len(history'.calls)] = history.calls[Len(history.calls)]

\* C12: adding the command that was added by the call just before changes
\* neither the entries of the history nor their count, wherever the ring
\* index stands
C12_RepeatedAddIsIdempotent ==
  [][RepeatedAdd => Ring(history') = Ring(history)]_vars

\* no call passed an empty line or the command of the call before it
NonDuplicate(calls) ==
  /\ \A i \in 1..Len(calls) : calls[i] # ""
  /\ \A i \in 1..(Len(calls) - 1) : calls[i] # calls[i + 1]

\* C13: after more than HISTORY_SIZE calls with non-duplicate commands the
\* count is HISTORY_SIZE, the history lists the last HISTORY_SIZE commands
\* in the order of their calls (each call into the full ring dropped the
\* oldest entry), and the entry of the first call is not listed
C13_FullRingEvictsOldest ==
  (/\ ~history.crashed
   /\ Len(history.calls) > HISTORY_SIZE
   /\ NonDuplicate(history.calls))
  => /\ history.history_count = HISTORY_SIZE
     /\ lsh_history(history) =
          [i \in 1..HISTORY_SIZE |->
             [command |-> history.calls[Len(history.calls) - HISTORY_SIZE + i],
              timestamp |-> Len(history.calls) - HISTORY_SIZE + i]]
     /\ \A i \in 1..history.history_count :
          lsh_history(history)[i].timestamp # 1

\* a key of the line editor was handled and editing goes on
EditorKey ==
  /\ reader.state = "editing"
  /\ reader'.state = "editing"
  /\ reader'.stdin = reader.stdin

SuggestionState(rd) == <<rd.suggestions, rd.has_suggestion, rd.prefix_start>>

\* C14: after every key that changes the edit buffer, the candidate list,
\* has_suggestion and prefix_start are what update_suggestions computes for
\* the new buffer
C14_SuggestionsFollowBuffer ==
  [][EditorKey /\ reader'.buffer # reader.buffer
       => SuggestionState(reader') = SuggestionState(update_suggestions(reader'))]_vars

\* C15: whenever has_suggestion is set, the selected suggestion index is at
\* least 0 and below the number of candidates
C15_SelectionInRange ==
  reader.has_suggestion = 1
    => reader.suggestion_index \in 0..(reader.suggestion_count - 1)

\* Up in menu mode has wrapped the selection from the first of several
\* candidates to the last
C15_Witness ==
  /\ reader.state = "editing"
  /\ reader.menu_mode = 1
  /\ reader.c = "KEY_UP"
  /\ reader.has_suggestion = 1
  /\ reader.suggestion_count > 1
  /\ reader.suggestion_index = reader.suggestion_count - 1

\* the editor after k more presses of Tab
RECURSIVE PressTab(_, _)
PressTab(rd, k) ==
  IF k = 0 \/ rd.state # "editing" THEN rd
  ELSE PressTab(ReadLineBody(rd, "KEY_TAB", NULL), k - 1)

\* C16: in menu mode with N candidates, N presses of Tab in a row bring the
\* selected index back to what it was, and no smaller positive number of
\* presses does
C16_TabCycleHasPeriodN ==
  reader.state = "editing" /\ reader.menu_mode = 1
    => LET N == reader.suggestion_count IN
       /\ N > 0
       /\ PressTab(reader, N).suggestion_index = reader.suggestion_index
       /\ \A k \in 1..(N - 1) :
            PressTab(reader, k).suggestion_index # reader.suggestion_index

\* Tab has moved the selection of a menu of three or more candidates to the
\* last one: the next press wraps
C16_Witness ==
  /\ reader.state = "editing"
  /\ reader.menu_mode = 1
  /\ reader.c = "KEY_TAB"
  /\ reader.suggestion_count >= 3
  /\ reader.suggestion_index = reader.suggestion_count - 1

\* C17: after a Backspace key the editor is not in menu mode, and the text
\* has lost the character before the cursor, or is unchanged when the
\* cursor was at position 0
C17_BackspaceLeavesMenu ==
  [][EditorKey /\ reader'.c \in {"KEY_BACKSPACE", "127"}
       => /\ reader'.menu_mode = 0
          /\ reader'.buffer =
               IF reader.position > 0
               THEN SubSeq(reader.buffer, 1, reader.position - 1)
               ELSE reader.buffer]_vars

\* the editor reads an Enter key
EnterPressed ==
  /\ reader.state = "editing"
  /\ reader'.stdin = reader.stdin
  /\ reader'.c \in {"KEY_ENTER", "\n"}

\* C18: Enter outside menu mode ends the call and returns the buffer as it
\* is; Enter in menu mode does not end the call and leaves the editor out
\* of menu mode
C18_EnterReturnsOutsideMenuOnly ==
  [][EnterPressed
       => IF reader.menu_mode = 0
          THEN reader'.state = "returned" /\ reader'.buffer = reader.buffer
          ELSE reader'.state = "editing" /\ reader'.menu_mode = 0]_vars

\* Enter in menu mode has put a file name into an argument and the editor
\* goes on
C18_Witness ==
  /\ reader.state = "editing"
  /\ reader.c \in {"KEY_ENTER", "\n"}
  /\ reader.menu_mode = 0
  /\ reader.prefix_start > 0
  /\ Len(reader.buffer) > reader.prefix_start

\* the editor, outside menu mode and with exactly one candidate on offer,
\* reads Tab
SingleCandidateTab ==
  /\ reader.state = "editing"
  /\ reader'.stdin = reader.stdin
  /\ reader'.c = "KEY_TAB"
  /\ reader.menu_mode = 0
  /\ reader.has_suggestion = 1
  /\ reader.suggestion_count = 1

\* the text in front of prefix_start, the directory part of what was typed
\* after it, and the candidate
SplicedBuffer(rd) ==
  LET typed == SubSeq(rd.buffer, rd.prefix_start + 1, Len(rd.buffer))
  IN SubSeq(rd.buffer, 1, rd.prefix_start)
       \o SubSeq(typed, 1, LastIndex(typed, "/") + 1)
       \o rd.suggestions[1]

\* C19: Tab outside menu mode with exactly one candidate accepts it at once:
\* the buffer becomes the text before prefix_start, the directory part
\* typed so far and the candidate ("he" becomes "help"), the editor stays
\* out of menu mode and the suggestions are those of the new buffer
C19_SingleCandidateTabAccepts ==
  [][SingleCandidateTab
       => /\ reader'.buffer = SplicedBuffer(reader)
          /\ reader.buffer = <<"h", "e">>
               => reader'.buffer = <<"h", "e", "l", "p">>
          /\ reader'.position = Len(reader'.buffer)
          /\ reader'.state = "editing"
          /\ reader'.menu_mode = 0
          /\ SuggestionState(reader')
               = SuggestionState(update_suggestions(reader'))]_vars

\* Tab has completed the only match of an argument typed with a directory
\* part, " /e", to " /etc/"
C19_Witness ==
  /\ reader.state = "editing"
  /\ reader.c = "KEY_TAB"
  /\ reader.menu_mode = 0
  /\ reader.buffer = <<" ", "/", "e", "t", "c", "/">>

\* the editor, outside menu mode, reads Escape
EscapeOutsideMenu ==
  /\ reader.state = "editing"
  /\ reader'.stdin = reader.stdin
  /\ reader'.c = "KEY_ESCAPE"
  /\ reader.menu_mode = 0

\* C20 as claimed: after Escape is pressed outside menu mode has_suggestion
\* is false and the candidate list is empty
C20_EscapeClearsSuggestions ==
  [][EscapeOutsideMenu
       => reader'.has_suggestion = 0 /\ reader'.suggestions = <<>>]_vars

\* C20: Escape outside menu mode changes nothing, the buffer, the cursor and
\* the suggestion state stay as they are; has_suggestion is cleared and the
\* candidate list emptied when the line is committed by Enter outside menu
\* mode
C20_EscapeOutsideMenuKeepsSuggestions ==
  [][/\ EscapeOutsideMenu => reader' = [reader EXCEPT !.c = "KEY_ESCAPE"]
     /\ EnterPressed /\ reader.menu_mode = 0
          => /\ reader'.has_suggestion = 0
             /\ reader'.suggestions = <<>>
             /\ reader'.suggestion_count = 0]_vars

\* Escape was pressed outside menu mode (a single candidate opens no menu)
\* and the candidate is still offered
C20_Witness ==
  /\ reader.state = "editing"
  /\ reader.c = "KEY_ESCAPE"
  /\ reader.menu_mode = 0
  /\ reader.has_suggestion = 1
  /\ reader.suggestion_count = 1
  /\ reader.buffer = <<"h", "e">>

\* C21: "./" is never offered as the only suggestion: when "./" is the only
\* candidate update_suggestions finds, has_suggestion is false
C21_LoneDotSlashSuppressed ==
  reader.state = "editing" /\ reader.suggestions = <<<<".", "/">>>>
    => reader.has_suggestion = 0

\* the argument typed names a directory whose only entry is "."
C21_Witness ==
  /\ reader.state = "editing"
  /\ reader.buffer = <<" ", "/", "e", "t", "c", "/">>
  /\ reader.suggestion_count = 1
  /\ reader.suggestions = <<<<".", "/">>>>
  /\ reader.has_suggestion = 0

\* the string in lower case
LowerCase(str) == [i \in 1..Len(str) |-> IF str[i] = "H" THEN "h" ELSE str[i]]

\* C22: when the buffer holds no space every candidate is the name of a
\* builtin or of an alias, no alias stands before a builtin, and every
\* candidate starts with the whole buffer, letter case ignored
C22_CommandCandidates ==
  reader.state = "editing" /\ " " \notin Range(reader.buffer)
    => LET list == reader.suggestions
           typed == LowerCase(reader.buffer)
       IN /\ \A i \in 1..Len(list) :
               /\ list[i] \in Range(builtin_str) \cup Range(reader.aliases)
               /\ Len(list[i]) >= Len(typed)
               /\ SubSeq(LowerCase(list[i]), 1, Len(typed)) = typed
          /\ \A i, j \in 1..Len(list) :
               i < j /\ list[j] \in Range(builtin_str)
                 => list[i] \in Range(builtin_str)

\* "H" was typed: two builtins and then the alias are the candidates
C22_Witness ==
  /\ reader.state = "editing"
  /\ reader.buffer = <<"H">>
  /\ reader.suggestions
       = <<<<"h", "e", "l", "p">>, <<"h", "i", "s", "t", "o", "r", "y">>,
           <<"h", "e", "y">>>>

\* C23: in menu mode the menu on the screen has at most 10 lines and the
\* selected candidate is one of them, drawn highlighted
C23_SelectedCandidateIsDrawn ==
  reader.state = "editing" /\ reader.menu_mode = 1
    => /\ reader.menu_start_line <= 10
       /\ reader.suggestion_index < reader.menu_start_line
       /\ reader.highlighted = reader.suggestion_index

HotKeys == {"1", "2", "3", "4", "5"}

ListModeSet ==
  {NCURSES_MODE_FILE_LIST, NCURSES_MODE_BRANCH_LIST,
   NCURSES_MODE_COMMIT_LIST, NCURSES_MODE_STASH_LIST}

\* C24 as claimed: after any of the keys 1..5, pressed in any mode, the
\* viewer is in one of the four list modes
C24_HotKeysReachListModes ==
  [][KeyStep /\ obs'.key \in HotKeys
       => viewer'.current_mode \in ListModeSet]_vars

\* C24: the keys 1, 3, 4 and 5, pressed in any mode, leave the viewer in
\* FileList, BranchList, CommitList and StashList; the key 2 leaves it in
\* FileView when the file list has a selected file and in the mode it was in
\* otherwise
C24_HotKeyTargets ==
  [][KeyStep /\ obs'.key \in HotKeys
       => viewer'.current_mode =
            CASE obs'.key = "1" -> NCURSES_MODE_FILE_LIST
              [] obs'.key = "2" ->
                   IF file_count(viewer) > 0
                      /\ viewer.selected_file < file_count(viewer)
                   THEN NCURSES_MODE_FILE_VIEW
                   ELSE viewer.current_mode
              [] obs'.key = "3" -> NCURSES_MODE_BRANCH_LIST
              [] obs'.key = "4" -> NCURSES_MODE_COMMIT_LIST
              [] obs'.key = "5" -> NCURSES_MODE_STASH_LIST]_vars

\* the key 2 has opened the file view
C24_Witness ==
  /\ pc = "update"
  /\ obs.key = "2"
  /\ viewer.current_mode = NCURSES_MODE_FILE_VIEW

\* C25: Escape pressed in a view mode moves the viewer to the list mode of
\* that view: FileView to FileList, CommitView to CommitList, StashView to
\* StashList, BranchView to BranchList
C25_EscapeReturnsToOwnList ==
  [][KeyStep /\ obs'.key = "ESC" /\ viewer.current_mode \in ViewModes
       => /\ viewer.current_mode = NCURSES_MODE_FILE_VIEW
               => viewer'.current_mode = NCURSES_MODE_FILE_LIST
          /\ viewer.current_mode = NCURSES_MODE_COMMIT_VIEW
               => viewer'.current_mode = NCURSES_MODE_COMMIT_LIST
          /\ viewer.current_mode = NCURSES_MODE_STASH_VIEW
               => viewer'.current_mode = NCURSES_MODE_STASH_LIST
          /\ viewer.current_mode = NCURSES_MODE_BRANCH_VIEW
               => viewer'.current_mode = NCURSES_MODE_BRANCH_LIST]_vars

\* Escape has closed the branch view (in the branch list Escape ends the
\* viewer)
C25_Witness ==
  /\ pc = "update"
  /\ obs.key = "ESC"
  /\ viewer.current_mode = NCURSES_MODE_BRANCH_LIST

\* 'p' is pressed in the branch list with the selection on a branch that is
\* behind its remote, and a pull is spawned
PullOfSelected ==
  /\ KeyStep
  /\ obs'.key = "p"
  /\ viewer.current_mode = NCURSES_MODE_BRANCH_LIST
  /\ BranchSelected
  /\ viewer.branches[viewer.selected_branch + 1].commits_behind > 0
  /\ "spawn:pull" \in Range(obs'.events)

\* C26: 'p' in the branch list on a selected branch that is behind pulls that
\* branch: the spawned "git pull" works on the branch under the selection,
\* and when it succeeds that branch is no longer behind
C26_PullsSelectedBranch ==
  [][PullOfSelected
       => LET b == viewer.branches[viewer.selected_branch + 1].name
          IN /\ repo.current = b
             /\ "popup" \notin Range(obs'.events) => repo'.behind[b] = 0]_vars

\* the delete dialog of 'd' is answered with "remote" or "local and remote"
\* for a branch without upstream
RemoteDeleteWithoutUpstream ==
  /\ KeyStep
  /\ obs'.key = "d"
  /\ Range(obs'.events) \cap {"delete:remote", "delete:both"} # {}
  /\ ~repo.upstream[viewer.branches[viewer.selected_branch + 1].name]

\* C27: remote, or local and remote, deletion chosen for a branch that has no
\* upstream shows an error popup and deletes nothing: no git command runs
\* and the repository is as it was
C27_RemoteDeleteNeedsUpstream ==
  [][RemoteDeleteWithoutUpstream
       => /\ "popup" \in Range(obs'.events)
          /\ Range(obs'.events) \cap {"git:branch-D", "git:push-delete"} = {}
          /\ repo' = repo
          /\ viewer'.branches = viewer.branches]_vars

\* "remote" was chosen for a branch without upstream: the popup was shown
C27_Witness ==
  /\ pc = "update"
  /\ obs.key = "d"
  /\ obs.events = <<"dialog:delete-branch", "delete:remote", "popup">>
  /\ \E i \in 1..branch_count(viewer) :
       /\ viewer.branches[i].status = 0
       /\ ~repo.upstream[viewer.branches[i].name]
       /\ viewer.branches[i].name \in repo.branches

\* 'c' is pressed in the file list with no file marked for commit, the title
\* dialog is filled in and the commit is attempted
CommitWithNothingMarked ==
  /\ KeyStep
  /\ obs'.key = "c"
  /\ viewer.current_mode = NCURSES_MODE_FILE_LIST
  /\ MarkedFiles(viewer) = {}
  /\ "git:commit" \in Range(obs'.events)

\* C28: a commit attempted with no file marked for commit is answered with
\* the error popup
C28_EmptyCommitShowsPopup ==
  [][CommitWithNothingMarked
       => Range(obs'.events) \cap {"popup", "popup:current-branch"} # {}]_vars

(***************************************************************************)
(* Scrolling in the view modes.                                            *)
(***************************************************************************)
\* an UP or DOWN key handled by a view mode with a content of some lines
SmartMove ==
  /\ InView
  /\ pc' # "input"
  /\ obs'.key \in {"UP", "DOWN"}
  /\ file_line_count(viewer) > 0

\* the lines with content on the side of line c that direction d points to
ContentAhead(v, d) ==
  {i \in 0..(file_line_count(v) - 1) :
     (i - v.file_cursor_line) * d > 0 /\ v.file_lines[i + 1]}

\* C29: a smart-cursor move lands on the nearest line with content in its
\* direction, whatever number of blank lines lies in between, and on the
\* first or the last line when no line in that direction has content; it
\* never stops inside the run of blank lines
C29_SmartMoveSkipsBlankRun ==
  [][SmartMove =>
       LET d == IF obs'.key = "UP" THEN -1 ELSE 1
           ahead == ContentAhead(viewer, d)
       IN viewer'.file_cursor_line =
            IF ahead = {}
            THEN (IF d = 1 THEN file_line_count(viewer) - 1 ELSE 0)
            ELSE CHOOSE i \in ahead :
                   \A j \in ahead : (i - viewer.file_cursor_line) * d
                                      <= (j - viewer.file_cursor_line) * d]_vars

\* a DOWN key has just carried the cursor over two blank lines or more
C29_Witness ==
  /\ obs.key = "DOWN"
  /\ viewer.current_mode \in ViewModes
  /\ viewer.file_cursor_line >= 3
  /\ viewer.file_cursor_line < file_line_count(viewer)
  /\ viewer.file_lines[viewer.file_cursor_line + 1]
  /\ ~viewer.file_lines[viewer.file_cursor_line]
  /\ ~viewer.file_lines[viewer.file_cursor_line - 1]

\* a Ctrl+U or Ctrl+D key handled by a view mode with a content of some lines
HalfPageMove ==
  /\ InView
  /\ pc' # "input"
  /\ obs'.key \in {"CTRL_U", "CTRL_D"}
  /\ file_line_count(viewer) > 0

\* C30: after Ctrl+U or Ctrl+D in a view mode the cursor is on a line of the
\* content and inside the viewport: file_scroll_offset <= file_cursor_line
\* < file_scroll_offset + max_lines_visible
C30_HalfPageKeepsCursorVisible ==
  [][HalfPageMove =>
       /\ viewer'.file_cursor_line >= 0
       /\ viewer'.file_cursor_line < file_line_count(viewer')
       /\ viewer'.file_scroll_offset <= viewer'.file_cursor_line
       /\ viewer'.file_cursor_line
            < viewer'.file_scroll_offset + max_lines_visible]_vars

(***************************************************************************)
(* Marking files for commit.                                               *)
(***************************************************************************)
\* 'a' handled by the file list
MarkAllKey ==
  /\ KeyStep
  /\ obs'.key = "a"
  /\ viewer.current_mode = NCURSES_MODE_FILE_LIST

\* C31: 'a' in the file list marks every changed file for commit, unless all
\* of them are marked already: then it unmarks every file; the list of files
\* itself stays as it is
C31_MarkAllToggles ==
  [][MarkAllKey =>
       /\ file_count(viewer') = file_count(viewer)
       /\ \A i \in 1..file_count(viewer) :
            /\ viewer'.files[i].filename = viewer.files[i].filename
            /\ viewer'.files[i].marked_for_commit =
                 IF MarkedFiles(viewer) = {viewer.files[j].filename :
                                             j \in 1..file_count(viewer)}
                 THEN 0 ELSE 1]_vars

\* 'a' has just unmarked every file of a list of NumFiles files
C31_Witness ==
  /\ obs.key = "a"
  /\ viewer.current_mode = NCURSES_MODE_FILE_LIST
  /\ file_count(viewer) = NumFiles
  /\ MarkedFiles(viewer) = {}

(***************************************************************************)
(* Loading a new file.                                                     *)
(***************************************************************************)
\* C32: an untracked file of L lines is loaded as exactly min(L, 50) content
\* lines, each of them tagged as an addition
C32_NewFileLoadsFirstFifty ==
  (obs.key = "ENTER" /\ viewer.current_mode = NCURSES_MODE_FILE_VIEW) =>
     /\ file_line_count(viewer) = Min(Len(repo.untracked), NewFileLineCap)
     /\ Len(obs.events) = file_line_count(viewer)
     /\ \A i \in 1..Len(obs.events) : obs.events[i] = "+"

(***************************************************************************)
(* The background fetch in the long run.                                   *)
(***************************************************************************)
\* C33: while the viewer runs, a background fetch is started again and
\* again, whatever keys were pressed before
C33_FetchKeepsStarting == []<>(obs.events = <<"spawn:fetch">>)

SyncedPhases ==
  {SYNC_STATUS_SYNCED_APPEARING, SYNC_STATUS_SYNCED_VISIBLE,
   SYNC_STATUS_SYNCED_DISAPPEARING}

\* C34: while a fetch is in progress the status bar is in none of the
\* "Synced!" phases
C34_SyncedOnlyAfterFetch ==
  viewer.fetch_in_progress = 1 => viewer.sync_status \notin SyncedPhases

(***************************************************************************)
(* Marks and previews across refreshes.                                    *)
(***************************************************************************)
\* C35: the refresh of a completed background fetch leaves the mark of every
\* file that is listed before and after it as it was
C35_FetchKeepsMarks ==
  [][FetchCompletes =>
       \A i \in 1..file_count(viewer), j \in 1..file_count(viewer') :
          viewer'.files[j].filename = viewer.files[i].filename
            => viewer'.files[j].marked_for_commit
                 = viewer.files[i].marked_for_commit]_vars

\* what the content panel holds when it previews the selected item of the
\* list mode the viewer is in
SelectedPreview(v) ==
  CASE v.current_mode = NCURSES_MODE_FILE_LIST ->
         [kind |-> "file", id |-> FileAt(v, v.selected_file)]
    [] v.current_mode = NCURSES_MODE_COMMIT_LIST ->
         [kind |-> "commit", id |-> CommitAt(v, v.selected_commit)]
    [] OTHER ->
         [kind |-> "stash", id |-> v.selected_stash]

ListLength(v) ==
  CASE v.current_mode = NCURSES_MODE_FILE_LIST -> file_count(v)
    [] v.current_mode = NCURSES_MODE_COMMIT_LIST -> commit_count(v)
    [] OTHER -> v.stash_count

\* C36: in the file list, the commit list and the stash list, when the list
\* has entries, the content panel holds the preview of the selected entry
C36_ListModeShowsSelectedPreview ==
  (/\ viewer.current_mode \in {NCURSES_MODE_FILE_LIST, NCURSES_MODE_COMMIT_LIST,
                               NCURSES_MODE_STASH_LIST}
   /\ ListLength(viewer) > 0)
    => viewer.content = SelectedPreview(viewer)

\* a background fetch completes with the viewer in the branch list or the
\* branch view, the commits of a branch that still exists being loaded
FetchCompletesInBranchMode ==
  /\ FetchCompletes
  /\ viewer.current_mode \in {NCURSES_MODE_BRANCH_LIST, NCURSES_MODE_BRANCH_VIEW}
  /\ viewer.current_branch_for_commits \in repo.branches

\* C37: when a background fetch completes in the branch list or the branch
\* view, the commits loaded for the branch are those the repository lists
\* for it at that moment
C37_FetchRereadsBranchCommits ==
  [][FetchCompletesInBranchMode =>
       /\ viewer'.current_branch_for_commits = viewer.current_branch_for_commits
       /\ viewer'.branch_commit_count =
            get_branch_commits(repo', viewer'.current_branch_for_commits)]_vars

(***************************************************************************)
(* Branch deletion that fails.                                             *)
(***************************************************************************)
ListedBranches(v) == {v.branches[i].name : i \in 1..branch_count(v)}

\* 'd' handled by the branch list while the list shows the branches of the
\* repository
DeleteKey ==
  /\ KeyStep
  /\ obs'.key = "d"
  /\ viewer.current_mode = NCURSES_MODE_BRANCH_LIST
  /\ ListedBranches(viewer) = repo.branches

\* C38: a deletion that is reported as failed deleted no branch, so after
\* 'd' the branch list shows the branches of the repository: either a
\* branch is gone and the list was refreshed, or nothing changed
C38_FailedDeleteDeletesNothing ==
  [][DeleteKey => ListedBranches(viewer') = repo'.branches]_vars

(***************************************************************************)
(* The key decoder.                                                        *)
(***************************************************************************)
\* C39: when read_key has returned an arrow key or Shift+Enter, every byte
\* of the sequence the terminal sent for it is consumed: none is left
\* pending for a later read_key to return as a character
C39_SpecialKeyConsumesSequence ==
  reader.key \in SpecialKeys => reader.pending = <<>>

(***************************************************************************)
(* Suppression of "./".                                                    *)
(***************************************************************************)
\* a character is typed: lsh_read_line appends it and calls
\* update_suggestions
CharacterTyped ==
  /\ EditorKey
  /\ isprint(reader'.c)
  /\ reader'.buffer # reader.buffer

\* C40: when the candidates found for the buffer include one that is not
\* "./", a suggestion is offered
C40_OtherCandidateIsOffered ==
  [][(/\ CharacterTyped
      /\ \E i \in 1..Len(reader'.suggestions) :
           reader'.suggestions[i] # <<".", "/">>)
       => reader'.has_suggestion = 1]_vars

====
